---- MODULE Spec2Model ----
(***************************************************************************)
(* The conversation-index (Thread-Index) codec of raweml, thread.go.       *)
(*                                                                         *)
(* Representation.  TLC integers are 32 bits wide, the program's are 64.   *)
(* A 64-bit word (int64, uint64, time.Duration) is therefore the sequence  *)
(* of its 8 bytes, most significant first (two's complement for signed     *)
(* values), and the arithmetic of the program is done byte by byte, modulo *)
(* 2^64 as the Go operators do.  A Go string or []byte is the sequence of  *)
(* its bytes (0..255); a Base64 token is the sequence of its ASCII codes.  *)
(***************************************************************************)
EXTENDS Integers, Sequences, FiniteSets, TLC

\* ------------------------------------------------------------------------
\* 64-bit words
\* ------------------------------------------------------------------------

Zero64 == <<0, 0, 0, 0, 0, 0, 0, 0>>
One64 == <<0, 0, 0, 0, 0, 0, 0, 1>>

Pow2(k) == CASE k = 0 -> 1 [] k = 1 -> 2 [] k = 2 -> 4 [] k = 3 -> 8
             [] k = 4 -> 16 [] k = 5 -> 32 [] k = 6 -> 64 [] k = 7 -> 128

\* bit k (0 = least significant) of the byte x
Bit8(x, k) == (x \div Pow2(k)) % 2

\* x & y and x | y on bytes
And8(x, y) ==
  LET b(k) == Bit8(x, k) * Bit8(y, k) * Pow2(k)
  IN  b(0) + b(1) + b(2) + b(3) + b(4) + b(5) + b(6) + b(7)

Or8(x, y) ==
  LET b(k) == (IF Bit8(x, k) + Bit8(y, k) > 0 THEN 1 ELSE 0) * Pow2(k)
  IN  b(0) + b(1) + b(2) + b(3) + b(4) + b(5) + b(6) + b(7)

\* bit i (0 = least significant, 63 = sign) of the word w
Bit64(w, i) == Bit8(w[8 - (i \div 8)], i % 8)

\* the word whose bit i is f[i]
FromBits(f) ==
  [j \in 1..8 |->
     LET b(k) == f[(8 - j) * 8 + k] * Pow2(k)
     IN  b(0) + b(1) + b(2) + b(3) + b(4) + b(5) + b(6) + b(7)]

\* w << k and w >> k on uint64 (bits shifted out are lost, zeros come in)
Shl64(w, k) == FromBits([i \in 0..63 |-> IF i >= k THEN Bit64(w, i - k) ELSE 0])
Shr64(w, k) == FromBits([i \in 0..63 |-> IF i + k <= 63 THEN Bit64(w, i + k) ELSE 0])

RECURSIVE AddBytes(_, _, _, _)
AddBytes(a, b, j, carry) ==
  IF j = 0 THEN <<>>
  ELSE LET s == a[j] + b[j] + carry
       IN  Append(AddBytes(a, b, j - 1, s \div 256), s % 256)

\* a + b modulo 2^64
Add64(a, b) == AddBytes(a, b, 8, 0)

Not64(a) == [j \in 1..8 |-> 255 - a[j]]

\* -a modulo 2^64
Neg64(a) == Add64(Not64(a), One64)

\* a - b modulo 2^64
Sub64(a, b) == Add64(a, Neg64(b))

RECURSIVE MulBytes(_, _, _, _)
MulBytes(a, m, j, carry) ==
  IF j = 0 THEN <<>>
  ELSE LET p == a[j] * m + carry
       IN  Append(MulBytes(a, m, j - 1, p \div 256), p % 256)

\* a * m modulo 2^64, for a small multiplier m
Mul64(a, m) == MulBytes(a, m, 8, 0)

RECURSIVE DivBytes(_, _, _, _)
DivBytes(a, m, j, rem) ==
  IF j > 8 THEN <<>>
  ELSE LET cur == rem * 256 + a[j]
       IN  <<cur \div m>> \o DivBytes(a, m, j + 1, cur % m)

\* a / m on uint64, for a small divisor m
DivU64(a, m) == DivBytes(a, m, 1, 0)

IsNeg64(a) == a[1] >= 128

\* a / m on int64: Go's division truncates toward zero
DivS64(a, m) == IF IsNeg64(a) THEN Neg64(DivU64(Neg64(a), m)) ELSE DivU64(a, m)

\* a < b on uint64
LtU64(a, b) ==
  \E j \in 1..8 : a[j] < b[j] /\ \A i \in 1..(j - 1) : a[i] = b[i]

\* a < b on int64 (two's complement: flip the sign bit and compare unsigned)
LtS64(a, b) ==
  LtU64([a EXCEPT ![1] = (a[1] + 128) % 256], [b EXCEPT ![1] = (b[1] + 128) % 256])

LeS64(a, b) == a = b \/ LtS64(a, b)

\* ------------------------------------------------------------------------
\* Time codec (thread.go 375-395)
\* ------------------------------------------------------------------------

\* 116444736000000000 = 0x019DB1DED53E8000: the 100 ns ticks from 1601-01-01
\* to 1970-01-01
EpochDiff == <<1, 157, 177, 222, 213, 62, 128, 0>>

\* nanoseconds per tick
TickNs == 100

\* TimeStampToUnix with the multiplication done before the subtraction
TimeStampToUnix_MulFirst(timeStampTicks) ==
  Sub64(Mul64(timeStampTicks, TickNs), EpochDiff)

\* TimeStampToUnix that keeps whole seconds only
TimeStampToUnix_WholeSeconds(timeStampTicks) ==
  LET seconds == DivU64(DivU64(Sub64(timeStampTicks, EpochDiff), 10000), 1000)
  IN  Mul64(Mul64(Mul64(seconds, 1000), 1000), 1000)

\* func TimeStampToUnix(timeStampTicks uint64) uint64
TimeStampToUnix(timeStampTicks) == Mul64(Sub64(timeStampTicks, EpochDiff), TickNs)

\* UnixToTimeStamp64 that leaves the ticks counted from 1970
UnixToTimeStamp64_NoEpoch(unixNanosecond) == DivS64(unixNanosecond, TickNs)

\* func UnixToTimeStamp64(unixNanosecond int64) int64
UnixToTimeStamp64(unixNanosecond) == Add64(DivS64(unixNanosecond, TickNs), EpochDiff)

\* func UnixToTimeStamp(unixNanosecond uint64) uint64
UnixToTimeStamp(unixNanosecond) == Add64(DivU64(unixNanosecond, TickNs), EpochDiff)

\* func IntToBytes(num int64) []byte: binary.Write, big endian.  A word is
\* kept as its big-endian bytes, so the 8 bytes written are the word's own.
IntToBytes(num) == [j \in 1..8 |-> num[j]]

\* binary.BigEndian.Uint64(b[:]) of an 8-byte array
BigEndianUint64(b) == [j \in 1..8 |-> b[j]]

\* time.Unix(0, nsec).UTC().UnixNano(): the time is split into seconds and
\* a nanosecond part in [0, 1e9) and put together again, modulo 2^64
UnixNanoOfUnix(nsec) == nsec

\* ------------------------------------------------------------------------
\* Base64, standard alphabet, padded (encoding/base64 StdEncoding)
\* ------------------------------------------------------------------------

PadChar == 61
NewLine == 10
CarriageReturn == 13

\* the character (ASCII code) of a 6-bit value: A-Z a-z 0-9 + /
B64Char(v) ==
  IF v < 26 THEN 65 + v
  ELSE IF v < 52 THEN 97 + (v - 26)
  ELSE IF v < 62 THEN 48 + (v - 52)
  ELSE IF v = 62 THEN 43 ELSE 47

\* the 6-bit value of a character, -1 when it is not in the alphabet
B64Val(c) ==
  IF c >= 65 /\ c <= 90 THEN c - 65
  ELSE IF c >= 97 /\ c <= 122 THEN c - 97 + 26
  ELSE IF c >= 48 /\ c <= 57 THEN c - 48 + 52
  ELSE IF c = 43 THEN 62
  ELSE IF c = 47 THEN 63 ELSE 0 - 1

\* Encoding.Encode: 3 bytes to 4 characters, the last group padded with '='
B64Encode(src) ==
  LET n == Len(src)
      at(i) == IF i <= n THEN src[i] ELSE 0
  IN  [k \in 1..(((n + 2) \div 3) * 4) |->
         LET q == (k - 1) \div 4
             r == (k - 1) % 4
             b1 == at(3 * q + 1)
             b2 == at(3 * q + 2)
             b3 == at(3 * q + 3)
         IN  CASE r = 0 -> B64Char(b1 \div 4)
               [] r = 1 -> B64Char((b1 % 4) * 16 + (b2 \div 16))
               [] r = 2 -> IF 3 * q + 2 > n THEN PadChar
                           ELSE B64Char((b2 % 16) * 4 + (b3 \div 64))
               [] r = 3 -> IF 3 * q + 3 > n THEN PadChar
                           ELSE B64Char(b3 % 64)]

\* base64.NewEncoder: the stream encoder keeps up to 2 bytes that do not
\* fill a 3-byte group yet (buf) and has written out so far
NewEncoder == [buf |-> <<>>, out |-> <<>>]

\* encoder.Write(p): whole 3-byte groups are encoded and written, the rest
\* is kept for the next Write
EncoderWrite(e, p) ==
  LET all == e.buf \o p
      full == (Len(all) \div 3) * 3
  IN  [buf |-> SubSeq(all, full + 1, Len(all)),
       out |-> e.out \o B64Encode(SubSeq(all, 1, full))]

\* Close that drops a kept partial group instead of writing it
EncoderClose_NoFlush(e) == [buf |-> <<>>, out |-> e.out]

\* encoder.Close(): a kept partial group is written with its padding; a
\* second Close finds nothing kept and writes nothing
EncoderClose(e) == [buf |-> <<>>, out |-> e.out \o B64Encode(e.buf)]

IsLineBreak(c) == c = NewLine \/ c = CarriageReturn

\* Encoding.DecodeString(s): '\r' and '\n' are skipped wherever they are;
\* every group has 4 characters; '=' may only end the last group ("xx==" or
\* "xxx="); anything else outside the alphabet is corrupt input.  The result
\* is dbuf[:n] of a buffer made with DecodedLen(len(s)) = len(s)/4*3 bytes,
\* which is the capacity of the returned slice; the bytes of the buffer
\* after n are zero.
DecodeString(s) ==
  LET t == SelectSeq(s, LAMBDA c : ~IsLineBreak(c))
      m == Len(t)
      okChar(k) ==
        LET r == (k - 1) % 4
        IN  IF t[k] = PadChar
            THEN /\ k >= m - 1
                 /\ r >= 2
                 /\ (r = 2 => t[k + 1] = PadChar)
            ELSE B64Val(t[k]) >= 0
      valid == m % 4 = 0 /\ \A k \in 1..m : okChar(k)
      pads == IF m = 0 THEN 0
              ELSE IF t[m] # PadChar THEN 0
              ELSE IF t[m - 1] # PadChar THEN 1 ELSE 2
      val(k) == IF t[k] = PadChar THEN 0 ELSE B64Val(t[k])
      n == (m \div 4) * 3 - pads
  IN  IF ~valid
      THEN [err |-> TRUE, bytes |-> <<>>, cap |-> (Len(s) \div 4) * 3]
      ELSE [err |-> FALSE,
            bytes |-> [i \in 1..n |->
                         LET q == (i - 1) \div 3
                             j == (i - 1) % 3
                             v1 == val(4 * q + 1)
                             v2 == val(4 * q + 2)
                             v3 == val(4 * q + 3)
                             v4 == val(4 * q + 4)
                         IN  CASE j = 0 -> v1 * 4 + (v2 \div 16)
                               [] j = 1 -> (v2 % 16) * 16 + (v3 \div 4)
                               [] j = 2 -> (v3 % 4) * 64 + v4],
            cap |-> (Len(s) \div 4) * 3]

\* bytes[lo:hi] of a slice with the given capacity: Go lets a slice
\* expression reach past len up to cap, where the buffer holds zeros
Reslice(bytes, lo, hi) ==
  [i \in 1..(hi - lo) |-> IF lo + i <= Len(bytes) THEN bytes[lo + i] ELSE 0]

\* ------------------------------------------------------------------------
\* Child block codec (thread.go 175-291)
\* ------------------------------------------------------------------------

\* the bytes of a 5-byte child block on the wire
BlockLen == 5

\* type ChildBlock struct: TimeDifference is an int64 of Unix nanoseconds,
\* RandomNum and SequenceCount are bytes.  ChildBlock{} is the zero value.
ZeroChildBlock ==
  [TimeFlag |-> FALSE, TimeDifference |-> Zero64, RandomNum |-> 0, SequenceCount |-> 0]

\* const FIRST_BIT_UP = uint64(0x80000000)
FIRST_BIT_UP == <<0, 0, 0, 0, 128, 0, 0, 0>>

Or64(a, b) == [j \in 1..8 |-> Or8(a[j], b[j])]

\* deltaDuration.Seconds() <= 0.02: Seconds() is float64(d / 1e9) +
\* float64(d % 1e9) / 1e9, which is at most the double 0.02 exactly when
\* d <= 20000000 ns (0x01312D00)
SecondsLe002(d) == LeS64(d, <<0, 0, 0, 0, 1, 49, 45, 0>>)

\* deltaDuration.Seconds() <= 1: exactly when d <= 1000000000 ns (0x3B9ACA00)
SecondsLe1(d) == LeS64(d, <<0, 0, 0, 0, 59, 154, 202, 0>>)

\* deltaDuration.Hours() / 24 / 365 > 2: in float64 the quotient first
\* exceeds 2 at d = 63072000000000007 ns (2 * 365 days and 7 ns)
YearsGt2(d) == LeS64(<<0, 224, 19, 166, 91, 70, 0, 7>>, d)

\* deltaDuration.Hours() / 24 / 365 > 56: first true at
\* d = 1766016000000000105 ns (56 * 365 days and 105 ns)
YearsGt56(d) == LeS64(<<24, 130, 38, 49, 251, 168, 0, 105>>, d)

\* the values rand.Intn(15) can return
RandIntn15 == 0..14

\* NewChildBlock that starts the sequence count at 1
NewChildBlock_CountsFromOne(deltaTimeUxNs, randomNum) ==
  [TimeFlag |-> ~(SecondsLe002(deltaTimeUxNs) \/ YearsGt2(deltaTimeUxNs))
                /\ (SecondsLe1(deltaTimeUxNs) \/ YearsGt56(deltaTimeUxNs)),
   TimeDifference |-> deltaTimeUxNs,
   RandomNum |-> randomNum,
   SequenceCount |-> 1]

\* func NewChildBlock(deltaTimeUxNs int64) ChildBlock, with the number
\* rand.Intn(15) returned after rand.Seed(time.Now().UnixNano())
NewChildBlock(deltaTimeUxNs, randomNum) ==
  LET timeFlag ==
        IF SecondsLe002(deltaTimeUxNs) \/ YearsGt2(deltaTimeUxNs) THEN FALSE
        ELSE IF SecondsLe1(deltaTimeUxNs) \/ YearsGt56(deltaTimeUxNs) THEN TRUE
        ELSE FALSE
  IN  [TimeFlag |-> timeFlag,
       TimeDifference |-> deltaTimeUxNs,
       RandomNum |-> randomNum,
       SequenceCount |-> 0]

\* Bytes that returns nothing when the 31-bit field of the block is zero
ChildBlock_Bytes_ZeroField(block) ==
  LET tsDiff == DivS64(block.TimeDifference, TickNs)
      kept == IF block.TimeFlag
              THEN Shr64(Shl64(tsDiff, 10), 10 + 23)
              ELSE Shr64(Shl64(tsDiff, 15), 15 + 18)
      word == IF block.TimeFlag THEN Or64(kept, FIRST_BIT_UP) ELSE kept
      last == Or8((block.RandomNum * 16) % 256, block.SequenceCount)
  IN  IF kept = Zero64 THEN <<>>
      ELSE <<word[5], word[6], word[7], word[8], last>>

\* Bytes that uses the window of TimeFlag = false for every block
ChildBlock_Bytes_OneWindow(block) ==
  IF block.TimeDifference = Zero64 THEN <<>>
  ELSE LET tsDiff == DivS64(block.TimeDifference, TickNs)
           kept == Shr64(Shl64(tsDiff, 15), 15 + 18)
           word == IF block.TimeFlag THEN Or64(kept, FIRST_BIT_UP) ELSE kept
           last == Or8((block.RandomNum * 16) % 256, block.SequenceCount)
       IN  <<word[5], word[6], word[7], word[8], last>>

\* func (block ChildBlock) Bytes() []byte: nil for a zero TimeDifference,
\* else flag + 31 bits of the ticks + random and sequence nibbles
ChildBlock_Bytes(block) ==
  IF block.TimeDifference = Zero64 THEN <<>>
  ELSE LET tsDiff == DivS64(block.TimeDifference, TickNs)
           kept == IF block.TimeFlag
                   THEN Shr64(Shl64(tsDiff, 10), 10 + 23)
                   ELSE Shr64(Shl64(tsDiff, 15), 15 + 18)
           word == IF block.TimeFlag THEN Or64(kept, FIRST_BIT_UP) ELSE kept
           \* cbBytes[4] = (block.RandomNum << 4) | block.SequenceCount
           last == Or8((block.RandomNum * 16) % 256, block.SequenceCount)
       IN  \* binary.BigEndian.PutUint32(cbBytes, uint32(tsDiff))
           <<word[5], word[6], word[7], word[8], last>>

\* func (block ChildBlock) String() string
ChildBlock_String(block) == ChildBlock_Bytes(block)

\* ParseChildBlock that shifts the field back by 18 bits for either flag
ParseChildBlock_OneShift(blockString) ==
  IF Len(blockString) < 0 \/ Len(blockString) > BlockLen
  THEN [status |-> "error", err |-> "SizeMismatch", block |-> ZeroChildBlock]
  ELSE IF Len(blockString) < 5
  THEN [status |-> "panic", err |-> "IndexOutOfRange", block |-> ZeroChildBlock]
  ELSE LET bytes == blockString
           timeFlag == And8(bytes[1], 128) > 0
           qWord == <<0, 0, 0, 0, And8(bytes[1], 127), bytes[2], bytes[3], bytes[4]>>
       IN  [status |-> "ok", err |-> "",
            block |-> [TimeFlag |-> timeFlag,
                       TimeDifference |-> Mul64(Shl64(qWord, 18), TickNs),
                       RandomNum |-> And8(bytes[5], 240) \div 16,
                       SequenceCount |-> And8(bytes[5], 15)]]

\* ParseChildBlock that reads the random number as bytes[4] & (0xF0 >> 4)
ParseChildBlock_NibbleMask(blockString) ==
  IF Len(blockString) < 0 \/ Len(blockString) > BlockLen
  THEN [status |-> "error", err |-> "SizeMismatch", block |-> ZeroChildBlock]
  ELSE IF Len(blockString) < 5
  THEN [status |-> "panic", err |-> "IndexOutOfRange", block |-> ZeroChildBlock]
  ELSE LET bytes == blockString
           timeFlag == And8(bytes[1], 128) > 0
           qWord == <<0, 0, 0, 0, And8(bytes[1], 127), bytes[2], bytes[3], bytes[4]>>
           shifted == IF timeFlag THEN Shl64(qWord, 23) ELSE Shl64(qWord, 18)
       IN  [status |-> "ok", err |-> "",
            block |-> [TimeFlag |-> timeFlag, TimeDifference |-> Mul64(shifted, TickNs),
                       RandomNum |-> And8(bytes[5], 240 \div 16),
                       SequenceCount |-> And8(bytes[5], 15)]]

\* func ParseChildBlock(blockString string) (block ChildBlock, err error).
\* The only error returned is the length error; bytes[0] and bytes[4] are
\* indexed without a check of the length, which is a run-time panic (index
\* out of range) for a string of fewer than 5 bytes.
ParseChildBlock(blockString) ==
  IF Len(blockString) < 0 \/ Len(blockString) > BlockLen
  THEN [status |-> "error", err |-> "SizeMismatch", block |-> ZeroChildBlock]
  ELSE IF Len(blockString) < 1
  THEN [status |-> "panic", err |-> "IndexOutOfRange", block |-> ZeroChildBlock]
  ELSE IF Len(blockString) < 5
  THEN [status |-> "panic", err |-> "IndexOutOfRange", block |-> ZeroChildBlock]
  ELSE LET bytes == blockString
           timeFlag == And8(bytes[1], 128) > 0
           \* dWord & 0x7fffffff, widened to uint64
           qWord == <<0, 0, 0, 0, And8(bytes[1], 127), bytes[2], bytes[3], bytes[4]>>
           shifted == IF timeFlag THEN Shl64(qWord, 23) ELSE Shl64(qWord, 18)
           tsDiff == Mul64(shifted, TickNs)
           \* bytes[4] & 0xF0 >> 4: & and >> have the same precedence in Go
           rnd == And8(bytes[5], 240) \div 16
           seq == And8(bytes[5], 15)
       IN  [status |-> "ok", err |-> "",
            block |-> [TimeFlag |-> timeFlag, TimeDifference |-> tsDiff,
                       RandomNum |-> rnd, SequenceCount |-> seq]]

\* ------------------------------------------------------------------------
\* Thread codec (thread.go 20-173)
\* ------------------------------------------------------------------------

\* the bytes of the header: 6 of time stamp and 16 of GUID
HeaderLen == 22
\* the bytes of the time stamp in the header
StampLen == 6
\* the child blocks ParseEmailThread reads at most
MaxParsedBlocks == 500

ZeroGuid == [j \in 1..16 |-> 0]

\* Thread{}: the zero value
ZeroThread ==
  [DateUnixNano |-> Zero64, guid |-> ZeroGuid, topic |-> "", ChildBlocks |-> <<>>]

\* func NewEmailThreadFromParams(dateUnixNanoSec, guid, topic, childBlocks) Thread
NewEmailThreadFromParams(dateUnixNanoSec, guid, topic, childBlocks) ==
  [DateUnixNano |-> dateUnixNanoSec, guid |-> guid, topic |-> topic,
   ChildBlocks |-> childBlocks]

\* uuid.FromBytes: an error unless the slice has 16 bytes
UuidFromBytes(b) == [err |-> Len(b) # 16, uuid |-> b]

\* func (thread Thread) GuidBytes() []byte: guid.MarshalBinary never fails
GuidBytes(thread) == thread.guid

GetGuid(thread) == thread.guid
GetTopic(thread) == thread.topic

\* the bytes of the blocks from position i on, one block after the other:
\* what thread.ChildBlocks[i].Bytes() returns is nothing or BlockLen bytes
BlocksBytes(childBlocks, i) ==
  LET n == Len(childBlocks)
      bs == <<>> \o [k \in 1..n |-> ChildBlock_Bytes(childBlocks[k])]
      written == SelectSeq([k \in 1..n |-> k], LAMBDA k : k >= i /\ bs[k] # <<>>)
  IN  [m \in 1..(BlockLen * Len(written)) |->
         bs[written[((m - 1) \div BlockLen) + 1]][((m - 1) % BlockLen) + 1]]

\* for i := 0; i < len(thread.ChildBlocks); i++ { encoder.Write(...Bytes()) }
\* from the block at position i on: the Writes of the loop hand the encoder
\* the bytes of the blocks one after the other, and the encoder is a stream
\* (EncoderWrite(EncoderWrite(e, p), q) = EncoderWrite(e, p \o q))
WriteChildBlocks(e, childBlocks, i) == EncoderWrite(e, BlocksBytes(childBlocks, i))

\* Bytes that writes the 6 low bytes of the ticks, tsBytes[2:], as the stamp
Thread_Bytes_LowStamp(thread) ==
  LET tn == UnixToTimeStamp64(thread.DateUnixNano)
      tsBytes == IntToBytes(tn)
      e1 == EncoderWrite(NewEncoder, SubSeq(tsBytes, 3, 8))
      e2 == EncoderWrite(e1, GuidBytes(thread))
      e3 == WriteChildBlocks(e2, thread.ChildBlocks, 1)
  IN  EncoderClose(e3).out

\* func (thread Thread) Bytes() []byte
Thread_Bytes(thread) ==
  LET tn == UnixToTimeStamp64(thread.DateUnixNano)
      tsBytes == IntToBytes(tn)
      e1 == EncoderWrite(NewEncoder, SubSeq(tsBytes, 1, StampLen))
      e2 == EncoderWrite(e1, GuidBytes(thread))
      e3 == WriteChildBlocks(e2, thread.ChildBlocks, 1)
  IN  EncoderClose(e3).out

\* func (thread Thread) String() string
Thread_String(thread) == Thread_Bytes(thread)

\* func (thread Thread) Index() string
Thread_Index(thread) == Thread_Bytes(thread)

\* what ParseEmailThread hands back when it does not return a Thread
ParseFailure(status, err, at) ==
  [status |-> status, err |-> err, at |-> at, thread |-> ZeroThread]

RECURSIVE ParseBlockRange(_, _, _, _, _)
\* the iterations lo..hi of the loop over the child blocks, iteration k with
\* i = from + 5 * k: block, err := ParseChildBlock(string(bytes[i : i+5])),
\* where bytes[i : i+5] panics when i+5 exceeds the capacity; an iteration
\* that panics ends the loop.  The range is split in halves so that the
\* evaluation nests only logarithmically deep.
ParseBlockRange(bytes, cap, from, lo, hi) ==
  IF lo > hi THEN [status |-> "ok", err |-> "", blocks |-> <<>>]
  ELSE IF lo = hi
  THEN LET i == from + BlockLen * lo
       IN  IF i + BlockLen > cap
           THEN [status |-> "panic", err |-> "IndexOutOfRange", blocks |-> <<>>]
           ELSE LET r == ParseChildBlock(Reslice(bytes, i, i + BlockLen))
                IN  IF r.status # "ok"
                    THEN [status |-> "panic", err |-> r.err, blocks |-> <<>>]
                    ELSE [status |-> "ok", err |-> "", blocks |-> <<r.block>>]
  ELSE LET mid == (lo + hi) \div 2
           left == ParseBlockRange(bytes, cap, from, lo, mid)
       IN  IF left.status # "ok" THEN left
           ELSE LET right == ParseBlockRange(bytes, cap, from, mid + 1, hi)
                IN  [status |-> right.status, err |-> right.err,
                     blocks |-> left.blocks \o right.blocks]

\* the iterations a loop "for i := from; i < end; i += 5" makes
Iterations(from, end) == IF end <= from THEN 0 ELSE ((end - from - 1) \div BlockLen) + 1

\* the loop without its second condition, i < (22+500*5)
ParseBlocksFrom_NoCap(bytes, cap, i, childBlocks) ==
  LET r == ParseBlockRange(bytes, cap, i, 0, Iterations(i, Len(bytes)) - 1)
  IN  [status |-> r.status, err |-> r.err, blocks |-> childBlocks \o r.blocks]

\* for i := 22; i < len(bytes) && i < (22+500*5); i += 5 { ... }
\* i is the Go index the loop starts at
ParseBlocksFrom(bytes, cap, i, childBlocks) ==
  LET end == IF Len(bytes) < HeaderLen + MaxParsedBlocks * BlockLen
             THEN Len(bytes) ELSE HeaderLen + MaxParsedBlocks * BlockLen
      r == ParseBlockRange(bytes, cap, i, 0, Iterations(i, end) - 1)
  IN  [status |-> r.status, err |-> r.err, blocks |-> childBlocks \o r.blocks]

\* ParseEmailThread that keeps the identifier only when a topic is given
ParseEmailThread_TopicGate(idx, topic) ==
  IF Len(idx) < HeaderLen
  THEN ParseFailure("panic", "TokenTooShort", "length")
  ELSE
    LET dec == DecodeString(idx)
        bytes == dec.bytes
    IN  IF dec.err
        THEN ParseFailure("panic", "Base64DecodeFailure", "decode")
        ELSE IF HeaderLen > dec.cap
        THEN ParseFailure("panic", "IndexOutOfRange", "guid")
        ELSE
          LET bTS == Reslice(bytes, 0, StampLen) \o <<0, 0>>
              g == UuidFromBytes(Reslice(bytes, StampLen, HeaderLen))
              cb == ParseBlocksFrom(bytes, dec.cap, HeaderLen, <<>>)
          IN  IF cb.status # "ok"
              THEN ParseFailure("panic", cb.err, "blocks")
              ELSE [status |-> "ok", err |-> "", at |-> "return",
                    thread |-> [DateUnixNano |-> UnixNanoOfUnix(TimeStampToUnix(BigEndianUint64(bTS))),
                                guid |-> IF topic = "" THEN ZeroGuid ELSE g.uuid,
                                topic |-> topic,
                                ChildBlocks |-> cb.blocks]]

\* func ParseEmailThread(idx string, topic string) (r Thread).  Every failure
\* is a panic; "at" names the statement that ended the call.
ParseEmailThread(idx, topic) ==
  IF Len(idx) < HeaderLen
  THEN ParseFailure("panic", "TokenTooShort", "length")
  ELSE
    LET dec == DecodeString(idx)
        bytes == dec.bytes
    IN  IF dec.err
        THEN ParseFailure("panic", "Base64DecodeFailure", "decode")
        ELSE IF StampLen > dec.cap
        THEN ParseFailure("panic", "IndexOutOfRange", "stamp")
        ELSE
          LET bTS == Reslice(bytes, 0, StampLen) \o <<0, 0>>
              uxNs == TimeStampToUnix(BigEndianUint64(bTS))
              threadTimeUnixNano == UnixNanoOfUnix(uxNs)
          IN  IF HeaderLen > dec.cap
              THEN ParseFailure("panic", "IndexOutOfRange", "guid")
              ELSE
                LET g == UuidFromBytes(Reslice(bytes, StampLen, HeaderLen))
                IN  IF g.err
                    THEN ParseFailure("panic", "IdentifierDecodeFailure", "guid")
                    ELSE
                      LET cb == ParseBlocksFrom(bytes, dec.cap, HeaderLen, <<>>)
                      IN  IF cb.status # "ok"
                          THEN ParseFailure("panic", cb.err, "blocks")
                          ELSE [status |-> "ok", err |-> "", at |-> "return",
                                thread |-> [DateUnixNano |-> threadTimeUnixNano,
                                            guid |-> g.uuid,
                                            topic |-> topic,
                                            ChildBlocks |-> cb.blocks]]

\* ------------------------------------------------------------------------
\* Threads of a running process: NewThread, AddChildBlock (thread.go 47-57,
\* 121-124, 157-173, 410-418)
\* ------------------------------------------------------------------------

\* []byte(s) of the topics
TopicBytes(s) ==
  CASE s = "" -> <<>>
    [] s = "some topic" -> <<115, 111, 109, 101, 32, 116, 111, 112, 105, 99>>

\* crypto/sha1: the digests of the byte strings hashed for the topics, as
\* pairs <<input, digest>>
Sha1Vectors ==
  {
    <<<<>>,
      <<218, 57, 163, 238, 94, 107, 75, 13, 50, 85, 191, 239, 149, 96, 24,
      144, 175, 216, 7, 9>>>>,
    <<<<158, 1, 182, 21, 166, 164, 72, 131, 185, 189, 193, 200, 15, 76, 206,
      180, 218, 57, 163, 238, 94, 107, 75, 13, 50, 85, 191, 239, 149, 96, 24,
      144, 175, 216, 7, 9>>,
      <<230, 101, 211, 226, 29, 81, 236, 186, 228, 86, 206, 18, 147, 222, 32,
      177, 77, 52, 98, 146>>>>,
    <<<<115, 111, 109, 101, 32, 116, 111, 112, 105, 99>>,
      <<135, 14, 34, 34, 103, 92, 133, 117, 32, 37, 73, 59, 45, 88, 181, 185,
      193, 131, 91, 150>>>>,
    <<<<158, 1, 182, 21, 166, 164, 72, 131, 185, 189, 193, 200, 15, 76, 206,
      180, 135, 14, 34, 34, 103, 92, 133, 117, 32, 37, 73, 59, 45, 88, 181,
      185, 193, 131, 91, 150>>,
      <<2, 123, 183, 53, 150, 125, 201, 244, 217, 203, 71, 61, 211, 146, 160,
      134, 222, 110, 49, 19>>>>
  }

\* h := sha1.New(); h.Write(data); h.Sum(nil)
Sha1Sum(data) == (CHOOSE v \in Sha1Vectors : v[1] = data)[2]

\* func Hash(s string) []byte
Hash(s) == Sha1Sum(TopicBytes(s))

\* uuid.Must(uuid.Parse("9e01b615-a6a4-4883-b9bd-c1c80f4cceb4"))
NameSpaceAppIdValue ==
  <<158, 1, 182, 21, 166, 164, 72, 131, 185, 189, 193, 200, 15, 76, 206, 180>>

\* uuid.NewSHA1(space, data): the first 16 bytes of sha1(space ++ data) with
\* the version 5 and the RFC 4122 variant bits set
NewSHA1(space, data) ==
  LET s == Sha1Sum(space \o data)
      u == SubSeq(s, 1, 16)
  IN  [u EXCEPT ![7] = Or8(And8(u[7], 15), 80), ![9] = Or8(And8(u[9], 63), 128)]

\* NewThread that takes the last byte of the identifier from the clock
NewThread_TimeBased(topic, now, space) ==
  [DateUnixNano |-> now,
   guid |-> [NewSHA1(space, Hash(topic)) EXCEPT ![16] = now[7]],
   topic |-> topic,
   ChildBlocks |-> <<>>]

\* func NewThread(topic string) Thread, with now = time.Now().UTC().UnixNano()
\* and space = NameSpaceAppId
NewThread(topic, now, space) ==
  LET data == Hash(topic)
      guid == NewSHA1(space, data)
  IN  [DateUnixNano |-> now, guid |-> guid, topic |-> topic, ChildBlocks |-> <<>>]

\* func HexToBase64(bites []byte) string
HexToBase64(bites) == B64Encode(bites)

\* func (thread *Thread) Reference() string
Thread_Reference(thread) == HexToBase64(GuidBytes(thread))

\* func (thread Thread) Write(w io.Writer): what is written to w
Thread_Write(thread) == Thread_Bytes(thread)

\* the largest and the smallest time.Duration
MaxDuration == <<127, 255, 255, 255, 255, 255, 255, 255>>
MinDuration == <<128, 0, 0, 0, 0, 0, 0, 0>>

\* time.Since(time.Unix(0, date)) at the clock reading now: now - date, and
\* the largest or smallest Duration when the difference does not fit
TimeSince(now, date) ==
  LET d == Sub64(now, date)
  IN  IF IsNeg64(now) # IsNeg64(date) /\ IsNeg64(d) # IsNeg64(now)
      THEN (IF IsNeg64(now) THEN MinDuration ELSE MaxDuration)
      ELSE d

\* a slice is an array of the heap (0: none, the nil slice) and a length;
\* its capacity is the length of the array.  The heap maps the addresses in
\* use to arrays; the allocator hands goroutine g the addresses g, g + 2, ...
NilSlice == [arr |-> 0, len |-> 0]

NoHeap == [a \in {} |-> <<>>]

NewArray(h, g) == CHOOSE a \in {g + 2 * k : k \in 0..Cardinality(DOMAIN h)} : a \notin DOMAIN h

SliceCap(h, sl) == IF sl.arr = 0 THEN 0 ELSE Len(h[sl.arr])

SliceElems(h, sl) == IF sl.arr = 0 THEN <<>> ELSE SubSeq(h[sl.arr], 1, sl.len)

\* append(sl, b): in place when the capacity allows, else into a new array
\* of twice the capacity (growslice; 1 for an empty one) that gets the
\* elements copied
AppendSlice(h, sl, b, g) ==
  IF sl.len < SliceCap(h, sl)
  THEN [heap |-> [h EXCEPT ![sl.arr][sl.len + 1] = b],
        slice |-> [sl EXCEPT !.len = sl.len + 1]]
  ELSE LET newcap == IF SliceCap(h, sl) = 0 THEN 1 ELSE 2 * SliceCap(h, sl)
           array == [j \in 1..newcap |->
                       IF j <= sl.len THEN h[sl.arr][j]
                       ELSE IF j = sl.len + 1 THEN b ELSE ZeroChildBlock]
           new == NewArray(h, g)
       IN  [heap |-> [a \in DOMAIN h \cup {new} |-> IF a = new THEN array ELSE h[a]],
            slice |-> [arr |-> new, len |-> sl.len + 1]]

RECURSIVE AppendAll(_, _, _, _, _)
\* childBlocks = append(childBlocks, block) for each block of a list; the
\* arrays left behind are garbage
AppendAll(h, sl, blocks, i, g) ==
  IF i > Len(blocks) THEN [heap |-> h, slice |-> sl]
  ELSE LET r == AppendSlice(h, sl, blocks[i], g)
       IN  AppendAll(r.heap, r.slice, blocks, i + 1, g)

\* the Thread value of a Thread variable: its ChildBlocks read from the heap
ThreadValue(h, t) == [t EXCEPT !.ChildBlocks = SliceElems(h, t.ChildBlocks)]

\* AddChildBlock that also moves the Thread's date to the time of the call
Thread_AddChildBlock_Restamp(h, t, now, randomNum, g) ==
  LET deltaTime == TimeSince(now, t.DateUnixNano)
      r == AppendSlice(h, t.ChildBlocks, NewChildBlock(deltaTime, randomNum), g)
  IN  [heap |-> r.heap,
       thread |-> [t EXCEPT !.ChildBlocks = r.slice, !.DateUnixNano = now]]

\* AddChildBlock that puts the new block in front of the others
Thread_AddChildBlock_Prepend(h, t, now, randomNum, g) ==
  LET deltaTime == TimeSince(now, t.DateUnixNano)
      old == SliceElems(h, t.ChildBlocks)
      r == AppendAll(h, NilSlice, <<NewChildBlock(deltaTime, randomNum)>> \o old, 1, g)
  IN  [heap |-> r.heap, thread |-> [t EXCEPT !.ChildBlocks = r.slice]]

\* func (thread *Thread) AddChildBlock() run by goroutine g, with now the
\* clock reading of time.Since and randomNum the number rand.Intn(15) returned
Thread_AddChildBlock(h, t, now, randomNum, g) ==
  LET deltaTime == TimeSince(now, t.DateUnixNano)
      r == AppendSlice(h, t.ChildBlocks, NewChildBlock(deltaTime, randomNum), g)
  IN  [heap |-> r.heap, thread |-> [t EXCEPT !.ChildBlocks = r.slice]]

\* ------------------------------------------------------------------------
\* Recipients (raweml.go: NewRecipients, Recipients.String)
\* ------------------------------------------------------------------------

\* the separator of the address lists: ','
Comma == 44

\* Recipients{}: the zero value, three nil lists
ZeroRecipients == [BccAddresses |-> <<>>, CcAddresses |-> <<>>, ToAddresses |-> <<>>]

RECURSIVE Split(_, _)
\* strings.Split(s, sep) for a separator of one character: the pieces
\* between the separators, empty ones included
Split(s, sep) ==
  IF \A i \in 1..Len(s) : s[i] # sep THEN <<s>>
  ELSE LET i == CHOOSE j \in 1..Len(s) : s[j] = sep /\ \A k \in 1..(j - 1) : s[k] # sep
       IN  <<SubSeq(s, 1, i - 1)>> \o Split(SubSeq(s, i + 1, Len(s)), sep)

RECURSIVE Join(_, _)
\* strings.Join(a, sep)
Join(a, sep) ==
  IF a = <<>> THEN <<>>
  ELSE IF Len(a) = 1 THEN a[1]
  ELSE a[1] \o <<sep>> \o Join(Tail(a), sep)

\* for _, s := range strings.Split(list, ",") { r = append(r, aws.String(s)) }
\* when len(list) > 0
AddressesOf(list) == IF Len(list) > 0 THEN Split(list, Comma) ELSE <<>>

\* func NewRecipients(to string, cc string, bcc string) (r Recipients)
NewRecipients(to_, cc_, bcc_) ==
  [BccAddresses |-> AddressesOf(bcc_),
   CcAddresses |-> AddressesOf(cc_),
   ToAddresses |-> AddressesOf(to_)]

\* All that lists the addresses in the order of the fields of the struct
Recipients_All_FieldOrder(r) == r.BccAddresses \o (r.CcAddresses \o r.ToAddresses)

\* func (r Recipients) All() []*string
Recipients_All(r) == r.ToAddresses \o (r.CcAddresses \o r.BccAddresses)

\* func toStringArray(a []*string) []string
toStringArray(a) == [i \in 1..Len(a) |-> a[i]]

\* func (r Recipients) String() string
Recipients_String(r) == Join(toStringArray(Recipients_All(r)), Comma)

\* func (r Recipients) IsEmpty() bool
Recipients_IsEmpty(r) ==
  Len(r.ToAddresses) = 0 /\ Len(r.CcAddresses) = 0 /\ Len(r.BccAddresses) = 0

\* ------------------------------------------------------------------------
\* Email headers (raweml.go)
\* ------------------------------------------------------------------------

\* the string literals of raweml.go as character codes: the header names
\* ("From" ... "MIME-Version"), the values written by Bytes ("en-US", "1.0",
\* the content types, "UTF-8"), the EmailPriority constants and the numbers
\* of ToNumber
Lit ==
  [From |-> <<70, 114, 111, 109>>,
   To |-> <<84, 111>>,
   Cc |-> <<67, 99>>,
   Bcc |-> <<66, 99, 99>>,
   ReturnPath |-> <<82, 101, 116, 117, 114, 110, 45, 80, 97, 116, 104>>,
   Subject |-> <<83, 117, 98, 106, 101, 99, 116>>,
   ThreadTopic |-> <<84, 104, 114, 101, 97, 100, 45, 84, 111, 112, 105, 99>>,
   ThreadIndex |-> <<84, 104, 114, 101, 97, 100, 45, 73, 110, 100, 101, 120>>,
   References |-> <<82, 101, 102, 101, 114, 101, 110, 99, 101, 115>>,
   InReplyTo |-> <<73, 110, 45, 82, 101, 112, 108, 121, 45, 84, 111>>,
   Importance |-> <<73, 109, 112, 111, 114, 116, 97, 110, 99, 101>>,
   XPriority |-> <<88, 45, 80, 114, 105, 111, 114, 105, 116, 121>>,
   ContentLanguage |-> <<67, 111, 110, 116, 101, 110, 116, 45, 76, 97, 110, 103, 117, 97, 103, 101>>,
   EnUS |-> <<101, 110, 45, 85, 83>>,
   ContentType |-> <<67, 111, 110, 116, 101, 110, 116, 45, 84, 121, 112, 101>>,
   MultipartMixed |-> <<109, 117, 108, 116, 105, 112, 97, 114, 116, 47, 109, 105, 120, 101, 100, 59, 32, 98, 111, 117, 110, 100, 97, 114, 121, 61, 34>>,
   MultipartAlternative |-> <<109, 117, 108, 116, 105, 112, 97, 114, 116, 47, 97, 108, 116, 101, 114, 110, 97, 116, 105, 118, 101, 59, 32, 98, 111, 117, 110, 100, 97, 114, 121, 61, 34>>,
   Quote |-> <<34>>,
   TextPlain |-> <<116, 101, 120, 116, 47, 112, 108, 97, 105, 110, 59, 32, 99, 104, 97, 114, 115, 101, 116, 61>>,
   TextHtml |-> <<116, 101, 120, 116, 47, 104, 116, 109, 108, 59, 32, 99, 104, 97, 114, 115, 101, 116, 61>>,
   MIMEVersion |-> <<77, 73, 77, 69, 45, 86, 101, 114, 115, 105, 111, 110>>,
   V10 |-> <<49, 46, 48>>,
   UTF8 |-> <<85, 84, 70, 45, 56>>,
   High |-> <<72, 105, 103, 104>>,
   Normal |-> <<78, 111, 114, 109, 97, 108>>,
   Low |-> <<76, 111, 119>>,
   N1 |-> <<49>>,
   N3 |-> <<51>>,
   N5 |-> <<53>>]

\* make(textproto.MIMEHeader): a map without keys; a map is a function from
\* its keys to their lists of values
EmptyHeader == [k \in {} |-> <<>>]

\* net/textproto: the bytes allowed in a header field name (letters, digits
\* and ! # $ % & ' * + - . ^ _ ` | ~)
validHeaderFieldByte(c) ==
  \/ c \in 48..57 \/ c \in 65..90 \/ c \in 97..122
  \/ c \in {33, 35, 36, 37, 38, 39, 42, 43, 45, 46, 94, 95, 96, 124, 126}

\* textproto.CanonicalMIMEHeaderKey(s): the first letter and every letter
\* after a hyphen in upper case, the others in lower case; s is returned
\* as it is when it holds a byte that is not allowed in a field name
CanonicalMIMEHeaderKey(s) ==
  IF \E i \in 1..Len(s) : ~validHeaderFieldByte(s[i]) THEN s
  ELSE [i \in 1..Len(s) |->
          LET upper == i = 1 \/ s[i - 1] = 45
              c == s[i]
          IN  IF upper /\ c \in 97..122 THEN c - 32
              ELSE IF ~upper /\ c \in 65..90 THEN c + 32
              ELSE c]

\* func (h MIMEHeader) Set(key, value string):
\* h[CanonicalMIMEHeaderKey(key)] = []string{value}
MIMEHeader_Set(h, k, v) ==
  LET ck == CanonicalMIMEHeaderKey(k)
  IN  [x \in DOMAIN h \cup {ck} |-> IF x = ck THEN <<v>> ELSE h[x]]

\* func setIfMissing(h *textproto.MIMEHeader, key, value string): the
\* look-up is by the key as given, the entry is made by Set
setIfMissing(h, k, v) ==
  IF Len(v) > 0 /\ k \notin DOMAIN h THEN MIMEHeader_Set(h, k, v) ELSE h

\* func (email Email) GetHeaders() *textproto.MIMEHeader: the receiver is a
\* copy of the Email; a nil Headers gets a new map in the copy only. maps
\* are the maps of the program, an Email's Headers is the number of one of
\* them or 0 (nil). Gives the maps and the map pointed to by the result
Email_GetHeaders(maps, e) ==
  IF e.Headers = 0
  THEN [maps |-> Append(maps, EmptyHeader), h |-> Len(maps) + 1]
  ELSE [maps |-> maps, h |-> e.Headers]

\* func (email *Email) SetHeader(key, value string): the maps and the Email
\* after the call
Email_SetHeader(maps, e, k, v) ==
  LET g == Email_GetHeaders(maps, e)
  IN  [maps |-> [g.maps EXCEPT ![g.h] = MIMEHeader_Set(@, k, v)],
       email |-> e]

\* func (email Email) getCharSet() string
Email_getCharSet(e) == IF Len(e.CharSet) > 0 THEN e.CharSet ELSE Lit.UTF8

\* func (priority EmailPriority) ToNumber() string
EmailPriority_ToNumber(priority) ==
  IF priority = Lit.High THEN Lit.N1
  ELSE IF priority = Lit.Normal THEN Lit.N3
  ELSE IF priority = Lit.Low THEN Lit.N5
  ELSE Lit.N3

\* one statement of Bytes on the header map h: op is <<"Set", key, value>>
\* for h.Set(key, value) and <<"setIfMissing", key, value>> for
\* setIfMissing(h, key, value)
HeaderStatement(h, op) ==
  IF op[1] = "Set" THEN MIMEHeader_Set(h, op[2], op[3])
  ELSE setIfMissing(h, op[2], op[3])

RECURSIVE HeaderStatements(_, _)
\* the statements ops on the header map h, one after the other
HeaderStatements(h, ops) ==
  IF ops = <<>> THEN h
  ELSE CHOOSE r \in { HeaderStatements(x, Tail(ops)) :
                        x \in {HeaderStatement(h, Head(ops))} } : TRUE

\* the statements of Bytes on the header map, lines 585 to 628, for the
\* Email e; thread is NewThread(email.Topic) and boundary is what
\* writer.Boundary() gives
Email_HeaderStatements(e, thread, boundary) ==
  LET hasAttachment == Len(e.Attachments) > 0
      hasTxt == Len(e.TextBody) > 0
      hasHTML == Len(e.HTMLBody) > 0
      hasAlternative == hasTxt /\ hasHTML
  IN
  << <<"setIfMissing", Lit.From, e.From>>,
     <<"setIfMissing", Lit.To, Join(toStringArray(e.Recipients.ToAddresses), Comma)>>,
     <<"setIfMissing", Lit.Cc, Join(toStringArray(e.Recipients.CcAddresses), Comma)>>,
     <<"setIfMissing", Lit.Bcc, Join(toStringArray(e.Recipients.BccAddresses), Comma)>>,
     <<"setIfMissing", Lit.ReturnPath, e.Feedback>>,
     <<"setIfMissing", Lit.Subject, e.Subject>> >>
  \o (IF Len(TopicBytes(e.Topic)) > 0
      THEN << <<"setIfMissing", Lit.ThreadTopic, TopicBytes(thread.topic)>>,
              <<"setIfMissing", Lit.ThreadIndex, Thread_String(thread)>>,
              <<"setIfMissing", Lit.References, Thread_Reference(thread)>> >>
      ELSE <<>>)
  \o (IF Len(e.InReplyTo) > 0
      THEN << <<"setIfMissing", Lit.InReplyTo, e.InReplyTo>> >>
      ELSE <<>>)
  \o (IF e.Priority # Lit.Normal
      THEN << <<"setIfMissing", Lit.Importance, e.Priority>>,
              <<"setIfMissing", Lit.XPriority, EmailPriority_ToNumber(e.Priority)>> >>
      ELSE <<>>)
  \o << <<"setIfMissing", Lit.ContentLanguage, Lit.EnUS>>,
        <<"Set", Lit.ContentType,
          IF hasAttachment
          THEN Lit.MultipartMixed \o boundary \o Lit.Quote
          ELSE IF hasAlternative
          THEN Lit.MultipartAlternative \o boundary \o Lit.Quote
          ELSE IF hasTxt
          THEN Lit.TextPlain \o Email_getCharSet(e)
          ELSE Lit.TextHtml \o Email_getCharSet(e)>>,
        <<"setIfMissing", Lit.MIMEVersion, Lit.V10>> >>

\* func (email Email) Bytes() ([]byte, error), up to writeHeader(buf, h):
\* the error, the header map that is written and the maps after the call.
\* now is what time.Now() gives to NewThread and boundary is what
\* writer.Boundary() gives; the body parts written after the header are
\* left out
Email_Bytes(maps, e, now, boundary) ==
  LET hasAttachment == Len(e.Attachments) > 0
      hasTxt == Len(e.TextBody) > 0
      hasHTML == Len(e.HTMLBody) > 0
      hasAlternative == hasTxt /\ hasHTML
      g == Email_GetHeaders(maps, e)
  IN  IF ~(hasAttachment \/ hasTxt \/ hasHTML \/ hasAlternative)
      THEN [err |-> "Cannot send empty email", headers |-> <<>>, maps |-> maps]
      ELSE IF Recipients_IsEmpty(e.Recipients)
      THEN [err |-> "At least one of the TO, CC  and BCC is required to send email.",
            headers |-> <<>>, maps |-> maps]
      ELSE CHOOSE r \in
             { [err |-> "", headers |-> h, maps |-> [g.maps EXCEPT ![g.h] = h]] :
                 h \in { HeaderStatements(g.maps[g.h], ops) :
                           ops \in { Email_HeaderStatements(e, thread, boundary) :
                                       thread \in {NewThread(e.Topic, now, NameSpaceAppIdValue)} } } } :
             TRUE

\* ------------------------------------------------------------------------
\* Subjects (thread.go 345-357)
\* ------------------------------------------------------------------------

\* strings.TrimPrefix(s, prefix)
TrimPrefix(s, prefix) ==
  IF Len(s) >= Len(prefix) /\ SubSeq(s, 1, Len(prefix)) = prefix
  THEN SubSeq(s, Len(prefix) + 1, Len(s))
  ELSE s

RECURSIVE GetNormilizedSubject(_, _)
\* func GetNormilizedSubject(subject string, level int) string: "RE:", then
\* "FW:", then " " are trimmed once each, and the same is done again on the
\* result when something was trimmed and level > 1
GetNormilizedSubject(subject_, level_) ==
  LET n1 == TrimPrefix(subject_, <<82, 69, 58>>)
      n2 == TrimPrefix(n1, <<70, 87, 58>>)
      n3 == TrimPrefix(n2, <<32>>)
  IN  IF Len(n3) # Len(subject_) /\ level_ > 1
      THEN GetNormilizedSubject(n3, level_ - 1)
      ELSE n3

\* ------------------------------------------------------------------------
\* Inputs
\* ------------------------------------------------------------------------

\* the longest child-block list given to NewEmailThreadFromParams and the
\* most 5-byte chunks put after the header of an input token
MaxBlocks == 2
\* the longest string given to ParseChildBlock
MaxStrLen == 6

\* DateUnixNano values: 0, 1, 2019-12-08 07:43:55.9904256 (a stamp of the
\* tests, whose ticks end in 16 zero bits), the same plus 1 ns, -1, -6553600,
\* the largest and the smallest int64
DateInputs ==
  { Zero64, One64,
    <<21, 222, 85, 115, 235, 182, 0, 0>>,
    <<21, 222, 85, 115, 235, 182, 0, 1>>,
    <<255, 255, 255, 255, 255, 255, 255, 255>>,
    <<255, 255, 255, 255, 255, 156, 0, 0>>,
    <<127, 255, 255, 255, 255, 255, 255, 255>>,
    <<128, 0, 0, 0, 0, 0, 0, 0>> }

\* DD8C2415-16C9-4731-882A-FF98A9C989D9 (thread_test.go 51) and a second one
GuidInputs ==
  { <<221, 140, 36, 21, 22, 201, 71, 49, 136, 42, 255, 152, 169, 201, 137, 217>>,
    <<0, 255, 0, 255, 0, 255, 0, 255, 0, 255, 0, 255, 0, 255, 0, 1>> }

TopicInputs == {"", "some topic"}

\* TimeDifference values: 0, 99 ns, 500 ms, 22 m 53.8967 s (thread_test.go
\* 123), 3 years, 2^62 ns, -1 s, the largest int64
DeltaInputs ==
  { Zero64,
    <<0, 0, 0, 0, 0, 0, 0, 99>>,
    <<0, 0, 0, 0, 29, 205, 101, 0>>,
    <<0, 0, 1, 63, 226, 160, 0, 0>>,
    <<1, 80, 29, 121, 137, 12, 0, 0>>,
    <<64, 0, 0, 0, 0, 0, 0, 1>>,
    <<255, 255, 255, 255, 196, 101, 54, 0>>,
    <<127, 255, 255, 255, 255, 255, 255, 255>> }

NibbleInputs == {0, 3, 15}

\* ChildBlock values written as struct literals
BlockInputs ==
  [TimeFlag : BOOLEAN, TimeDifference : DeltaInputs,
   RandomNum : NibbleInputs \cup {200}, SequenceCount : NibbleInputs]

\* the child blocks of the threads given to NewEmailThreadFromParams
ListBlockInputs ==
  { [TimeFlag |-> FALSE, TimeDifference |-> <<0, 0, 1, 63, 226, 160, 0, 0>>,
     RandomNum |-> 3, SequenceCount |-> 0],
    [TimeFlag |-> FALSE, TimeDifference |-> Zero64,
     RandomNum |-> 5, SequenceCount |-> 0],
    [TimeFlag |-> TRUE, TimeDifference |-> <<64, 0, 0, 0, 0, 0, 0, 1>>,
     RandomNum |-> 15, SequenceCount |-> 15],
    [TimeFlag |-> FALSE, TimeDifference |-> <<255, 255, 255, 255, 196, 101, 54, 0>>,
     RandomNum |-> 0, SequenceCount |-> 1] }

SeqsUpTo(S, n) == UNION {[1..l -> S] : l \in 0..n}

ByteInputs == {0, 128, 186, 255}

\* the strings given to ParseChildBlock
StrInputs == SeqsUpTo(ByteInputs, MaxStrLen)

\* header time stamps (6 bytes): 2019-12-08 (thread_test.go 51), just
\* before and just after 1970, the last stamp whose Unix nanoseconds fit an
\* int64 (2262) and the one after it, 1601, and all ones
StampInputs ==
  { <<1, 213, 173, 154, 223, 72>>,
    <<1, 157, 177, 222, 213, 62>>,
    <<1, 157, 177, 222, 213, 63>>,
    <<2, 229, 95, 243, 80, 31>>,
    <<2, 229, 95, 243, 80, 32>>,
    <<0, 0, 0, 0, 0, 0>>,
    <<255, 255, 255, 255, 255, 255>> }

\* 5-byte chunks on the wire: 0000CCBA30 (thread_test.go 123), a chunk with
\* a zero time field, a chunk with the flag set
WireBlockInputs ==
  { <<0, 0, 204, 186, 48>>, <<0, 0, 0, 0, 48>>, <<255, 255, 255, 255, 255>> }

RECURSIVE Flatten(_)
Flatten(ss) == IF ss = <<>> THEN <<>> ELSE Head(ss) \o Flatten(Tail(ss))

\* the bytes a token is the Base64 text of: header, whole chunks, and r
\* bytes more that do not fill a chunk
RawInputs ==
  { st \o g \o Flatten(bs) \o [i \in 1..r |-> 171] :
      st \in StampInputs, g \in GuidInputs,
      bs \in SeqsUpTo(WireBlockInputs, MaxBlocks), r \in 0..(BlockLen - 1) }

\* how the text of a token is derived from the canonical text
Mangle(text, how) ==
  CASE how = "canonical" -> text
    [] how = "nopad" -> SelectSeq(text, LAMBDA c : c # PadChar)
    [] how = "linebreaks" -> text \o <<CarriageReturn, NewLine, CarriageReturn, NewLine>>
    [] how = "badchar" -> [text EXCEPT ![5] = 33]
    [] how = "trailbits" ->
         \* the last character before the padding with its unused bits set
         IF text[Len(text)] # PadChar THEN text
         ELSE LET k == IF text[Len(text) - 1] = PadChar THEN Len(text) - 2
                       ELSE Len(text) - 1
              IN  [text EXCEPT ![k] = B64Char(B64Val(text[k]) + 1)]

MangleInputs == {"canonical", "nopad", "linebreaks", "badchar", "trailbits"}

\* "AdWtmt9I3YwkFRbJRzGIKv+YqcmJ2Q==" (thread_test.go 51)
TestToken == B64Encode(<<1, 213, 173, 154, 223, 72>> \o
  <<221, 140, 36, 21, 22, 201, 71, 49, 136, 42, 255, 152, 169, 201, 137, 217>>)

\* tokens that are no Base64 text of a header: prefixes of a token, 11 and
\* 12 times the 2-byte character U+00E9, line breaks only, one group and
\* line breaks
OddTokens ==
  { SubSeq(TestToken, 1, n) : n \in {0, 1, 20, 21, 22, 23, 24, 28} }
  \cup { [i \in 1..(2 * n) |-> IF i % 2 = 1 THEN 195 ELSE 169] : n \in {10, 11, 12} }
  \cup { [i \in 1..n |-> NewLine] : n \in {21, 22, 32} }
  \cup { <<65, 81, 73, 68>> \o [i \in 1..n |-> NewLine] : n \in {17, 18, 28} }

TokenInputs ==
  { Mangle(B64Encode(raw), how) : raw \in RawInputs, how \in MangleInputs }
  \cup OddTokens

\* the k-th chunk of a long token: its time field holds k
LongChunk(k) == <<0, k \div 256, k % 256, 186, 48>>

\* the bytes of a long token: the header of thread_test.go 51, n chunks and
\* r bytes more
LongRaw(n, r) ==
  <<1, 213, 173, 154, 223, 72>> \o
  <<221, 140, 36, 21, 22, 201, 71, 49, 136, 42, 255, 152, 169, 201, 137, 217>> \o
  [i \in 1..(BlockLen * n) |-> LongChunk(((i - 1) \div BlockLen) + 1)[((i - 1) % BlockLen) + 1]] \o
  [i \in 1..r |-> 171]

\* tokens around the most child blocks ParseEmailThread reads: as many
\* chunks, with 3 bytes more, one and two chunks more, one chunk and 3 bytes
\* more
LongTokenInputs ==
  { B64Encode(LongRaw(MaxParsedBlocks + n, r)) :
      n \in 0..2, r \in {0, BlockLen - 2} }

\* ------------------------------------------------------------------------
\* State: one call sequence on the thread codec (SpecThread) or on the
\* child block codec (SpecBlock)
\* ------------------------------------------------------------------------

VARIABLES
  pc,       \* what has been done: the position in the call sequence
  origin,   \* "params": thread came from NewEmailThreadFromParams;
            \* "token": idx was given
  thread,   \* the Thread built from parameters
  topic,    \* the topic given to ParseEmailThread
  idx,      \* the Thread-Index text: thread.String() or the given token
  res,      \* what ParseEmailThread(idx, topic) did
  out,      \* the text produced again from the parsed Thread
  delta,    \* the duration given to NewChildBlock
  blk,      \* the ChildBlock at hand
  blkStr,   \* the block string: blk.Bytes() or the given string
  blkRes,   \* what ParseChildBlock(blkStr) did
  blkOut,   \* blkRes.block.Bytes()
  stamp,    \* the tick value given to TimeStampToUnix
  nano,     \* Unix nanoseconds: TimeStampToUnix(stamp) or the given value
  stampBack, \* the ticks the nanoseconds convert to
  nanoBack, \* TimeStampToUnix(stampBack)
  clock,    \* the wall clock: the position in ClockInputs
  threads,  \* the Thread variables of the process
  heap,     \* the arrays behind the ChildBlocks slices
  gpc,      \* where each goroutine is: "new", "idle", in AddChildBlock, "panic"
  local,    \* the locals of each goroutine's AddChildBlock call
  randSrc,  \* the global source of math/rand
  ret,      \* the value the last method call returned
  NameSpaceAppId,  \* the package variable of that name
  to, cc, bcc,  \* the strings given to NewRecipients
  recipients,   \* NewRecipients(to, cc, bcc)
  got,      \* recipients.String()
  email,    \* an Email: its Headers field
  mimeHeaders,  \* the maps that MIMEHeader values refer to
  key,      \* the key given to SetHeader
  val,      \* the value given to SetHeader
  seen,     \* the headers a later GetHeaders() or Bytes() saw
  subject,  \* the subject given to GetNormilizedSubject
  level,    \* the level given to GetNormilizedSubject
  normalizedSubject  \* what GetNormilizedSubject returned

threadVars == <<thread, topic, idx, res, out>>
blockVars == <<delta, blk, blkStr, blkRes, blkOut>>
timeVars == <<stamp, nano, stampBack, nanoBack>>
procVars == <<clock, threads, heap, gpc, local, randSrc, ret, NameSpaceAppId>>
recipientVars == <<to, cc, bcc, recipients, got>>
emailVars == <<email, mimeHeaders, key, val, seen>>
subjectVars == <<subject, level, normalizedSubject>>
mailVars == <<recipientVars, emailVars, subjectVars>>
extVars == <<timeVars, procVars, mailVars>>
vars == <<pc, origin, thread, topic, idx, res, out, delta, blk, blkStr, blkRes, blkOut,
          stamp, nano, stampBack, nanoBack,
          clock, threads, heap, gpc, local, randSrc, ret, NameSpaceAppId,
          to, cc, bcc, recipients, got, email, mimeHeaders, key, val, seen,
          subject, level, normalizedSubject>>

NoParse == ParseFailure("none", "", "")
NoBlockParse == [status |-> "none", err |-> "", block |-> ZeroChildBlock]

ThreadIdle ==
  /\ thread = ZeroThread /\ topic = "" /\ idx = <<>> /\ res = NoParse /\ out = <<>>

BlockIdle ==
  /\ delta = Zero64 /\ blk = ZeroChildBlock /\ blkStr = <<>>
  /\ blkRes = NoBlockParse /\ blkOut = <<>>

TimeIdle ==
  /\ stamp = Zero64 /\ nano = Zero64 /\ stampBack = Zero64 /\ nanoBack = Zero64

\* the Thread variables of the process, one goroutine working on each
ThreadIds == {1, 2}

\* the global source of math/rand as the runtime sets it up: NewSource(1)
RandAtStart == [seed |-> One64, draws |-> 0]

NoLocal == [now |-> Zero64]
NoRet == [set |-> FALSE, value |-> <<>>, text |-> ""]

ProcIdle ==
  /\ clock = 1
  /\ threads = [i \in ThreadIds |-> [ZeroThread EXCEPT !.ChildBlocks = NilSlice]]
  /\ heap = NoHeap
  /\ gpc = [g \in ThreadIds |-> "none"]
  /\ local = [g \in ThreadIds |-> NoLocal]
  /\ randSrc = RandAtStart
  /\ ret = NoRet
  /\ NameSpaceAppId = NameSpaceAppIdValue

\* Email{}: Headers is nil (0: no map)
ZeroEmail ==
  [From |-> <<>>, Recipients |-> ZeroRecipients, Feedback |-> <<>>,
   Subject |-> <<>>, TextBody |-> <<>>, HTMLBody |-> <<>>, CharSet |-> <<>>,
   Attachments |-> <<>>, Headers |-> 0, Priority |-> <<>>, Topic |-> "",
   InReplyTo |-> <<>>, AwsRegion |-> <<>>]

NoHeaders == [err |-> "", headers |-> <<>>]

RecipientsIdle ==
  /\ to = <<>> /\ cc = <<>> /\ bcc = <<>>
  /\ recipients = ZeroRecipients /\ got = <<>>

EmailIdle ==
  /\ email = ZeroEmail /\ mimeHeaders = <<>> /\ key = <<>> /\ val = <<>>
  /\ seen = NoHeaders

SubjectIdle ==
  /\ subject = <<>> /\ level = 0 /\ normalizedSubject = <<>>

MailIdle == RecipientsIdle /\ EmailIdle /\ SubjectIdle

ExtIdle == TimeIdle /\ ProcIdle /\ MailIdle

\* ---- thread codec ----

\* a Thread built by NewEmailThreadFromParams
InitFromParams ==
  /\ pc = "thread" /\ origin = "params"
  /\ \E d \in DateInputs, g \in GuidInputs, tp \in TopicInputs,
        cbs \in SeqsUpTo(ListBlockInputs, MaxBlocks) :
       thread = NewEmailThreadFromParams(d, g, tp, cbs)
  /\ topic \in TopicInputs
  /\ idx = <<>> /\ res = NoParse /\ out = <<>>
  /\ BlockIdle /\ ExtIdle

\* a token received from outside
InitFromToken ==
  /\ pc = "token" /\ origin = "token"
  /\ thread = ZeroThread
  /\ topic \in TopicInputs
  /\ idx \in TokenInputs
  /\ res = NoParse /\ out = <<>>
  /\ BlockIdle /\ ExtIdle

\* a token with some 500 child blocks received from outside
InitFromLongToken ==
  /\ pc = "token" /\ origin = "token"
  /\ thread = ZeroThread
  /\ topic \in TopicInputs
  /\ idx \in LongTokenInputs
  /\ res = NoParse /\ out = <<>>
  /\ BlockIdle /\ ExtIdle

InitThread == InitFromParams \/ InitFromToken \/ InitFromLongToken

\* idx := thread.String()
String ==
  /\ pc = "thread"
  /\ idx' = Thread_String(thread)
  /\ pc' = "token"
  /\ UNCHANGED <<origin, thread, topic, res, out>>
  /\ UNCHANGED blockVars /\ UNCHANGED extVars

\* res := ParseEmailThread(idx, topic)
Parse ==
  /\ pc = "token"
  /\ res' = ParseEmailThread(idx, topic)
  /\ pc' = "parsed"
  /\ UNCHANGED <<origin, thread, topic, idx, out>>
  /\ UNCHANGED blockVars /\ UNCHANGED extVars

\* out := parsed.String()
Reencode ==
  /\ pc = "parsed" /\ res.status = "ok"
  /\ out' = Thread_String(res.thread)
  /\ pc' = "reencoded"
  /\ UNCHANGED <<origin, thread, topic, idx, res>>
  /\ UNCHANGED blockVars /\ UNCHANGED extVars

\* out := NewEmailThreadFromParams(p.DateUnixNano, p.GetGuid(), p.GetTopic(),
\* nil).String() (example_test.go 172-191)
Rebuild ==
  /\ pc = "parsed" /\ res.status = "ok"
  /\ out' = Thread_String(NewEmailThreadFromParams(res.thread.DateUnixNano,
               GetGuid(res.thread), GetTopic(res.thread), <<>>))
  /\ pc' = "rebuilt"
  /\ UNCHANGED <<origin, thread, topic, idx, res>>
  /\ UNCHANGED blockVars /\ UNCHANGED extVars

NextThread == String \/ Parse \/ Reencode \/ Rebuild

SpecThread == InitThread /\ [][NextThread]_vars

\* ---- child block codec ----

InitFromBlock ==
  /\ pc = "block" /\ origin = "literal"
  /\ blk \in BlockInputs
  /\ delta = Zero64 /\ blkStr = <<>> /\ blkRes = NoBlockParse /\ blkOut = <<>>
  /\ ThreadIdle /\ ExtIdle

InitFromString ==
  /\ pc = "string" /\ origin = "string"
  /\ blkStr \in StrInputs
  /\ delta = Zero64 /\ blk = ZeroChildBlock /\ blkRes = NoBlockParse /\ blkOut = <<>>
  /\ ThreadIdle /\ ExtIdle

InitFromDelta ==
  /\ pc = "delta" /\ origin = "delta"
  /\ delta \in DeltaInputs
  /\ blk = ZeroChildBlock /\ blkStr = <<>> /\ blkRes = NoBlockParse /\ blkOut = <<>>
  /\ ThreadIdle /\ ExtIdle

InitBlock == InitFromBlock \/ InitFromString \/ InitFromDelta

\* blk := NewChildBlock(delta)
CreateBlock ==
  /\ pc = "delta"
  /\ \E randomNum \in RandIntn15 : blk' = NewChildBlock(delta, randomNum)
  /\ pc' = "block"
  /\ UNCHANGED <<origin, delta, blkStr, blkRes, blkOut>>
  /\ UNCHANGED threadVars /\ UNCHANGED extVars

\* blkStr := blk.String()
BlockString ==
  /\ pc = "block"
  /\ blkStr' = ChildBlock_String(blk)
  /\ pc' = "string"
  /\ UNCHANGED <<origin, delta, blk, blkRes, blkOut>>
  /\ UNCHANGED threadVars /\ UNCHANGED extVars

\* blkRes := ParseChildBlock(blkStr)
ParseBlock ==
  /\ pc = "string"
  /\ blkRes' = ParseChildBlock(blkStr)
  /\ pc' = "blockParsed"
  /\ UNCHANGED <<origin, delta, blk, blkStr, blkOut>>
  /\ UNCHANGED threadVars /\ UNCHANGED extVars

\* blkOut := parsed.Bytes()
BlockBytes ==
  /\ pc = "blockParsed" /\ blkRes.status = "ok"
  /\ blkOut' = ChildBlock_Bytes(blkRes.block)
  /\ pc' = "blockReencoded"
  /\ UNCHANGED <<origin, delta, blk, blkStr, blkRes>>
  /\ UNCHANGED threadVars /\ UNCHANGED extVars

NextBlock == CreateBlock \/ BlockString \/ ParseBlock \/ BlockBytes

SpecBlock == InitBlock /\ [][NextBlock]_vars

\* ---- the codec: Threads and child blocks, written and read back ----

SpecCodec == (InitThread \/ InitBlock) /\ [][NextThread \/ NextBlock]_vars

\* ---- time codec ----

\* tick values: 0, the Unix epoch, the stamps of thread_test.go 134-138, a
\* day of 2026, the last tick whose nanoseconds fit an int64, 2^63
TickBases ==
  { Zero64, EpochDiff,
    <<1, 199, 86, 162, 227, 100, 159, 125>>,
    <<1, 199, 86, 162, 228, 47, 224, 203>>,
    <<1, 205, 233, 10, 191, 224, 0, 0>>,
    <<1, 221, 107, 138, 218, 29, 96, 0>>,
    <<2, 229, 95, 243, 80, 31, 199, 174>>,
    <<128, 0, 0, 0, 0, 0, 0, 0>> }

TickOffsets ==
  { Zero64, One64, <<0, 0, 0, 0, 0, 0, 0, 99>>, <<0, 0, 0, 0, 0, 1, 0, 0>>, Neg64(One64) }

TickInputs == { Add64(b, o) : b \in TickBases, o \in TickOffsets }

InitFromStamp ==
  /\ pc = "stamp" /\ origin = "stamp"
  /\ stamp \in TickInputs
  /\ nano = Zero64 /\ stampBack = Zero64 /\ nanoBack = Zero64
  /\ ThreadIdle /\ BlockIdle /\ ProcIdle /\ MailIdle

InitFromNano ==
  /\ pc = "nano" /\ origin = "nano"
  /\ nano \in DateInputs
  /\ stamp = Zero64 /\ stampBack = Zero64 /\ nanoBack = Zero64
  /\ ThreadIdle /\ BlockIdle /\ ProcIdle /\ MailIdle

InitTime == InitFromStamp \/ InitFromNano

\* nano := TimeStampToUnix(stamp)
ToUnix ==
  /\ pc = "stamp"
  /\ nano' = TimeStampToUnix(stamp)
  /\ pc' = "nano"
  /\ UNCHANGED <<origin, stamp, stampBack, nanoBack>>
  /\ UNCHANGED threadVars /\ UNCHANGED blockVars /\ UNCHANGED procVars
  /\ UNCHANGED mailVars

\* stampBack := UnixToTimeStamp64(int64(nano))
ToTimeStamp64 ==
  /\ pc = "nano"
  /\ stampBack' = UnixToTimeStamp64(nano)
  /\ pc' = "stampBack"
  /\ UNCHANGED <<origin, stamp, nano, nanoBack>>
  /\ UNCHANGED threadVars /\ UNCHANGED blockVars /\ UNCHANGED procVars
  /\ UNCHANGED mailVars

\* stampBack := UnixToTimeStamp(nano)
ToTimeStamp ==
  /\ pc = "nano"
  /\ stampBack' = UnixToTimeStamp(nano)
  /\ pc' = "stampBackU"
  /\ UNCHANGED <<origin, stamp, nano, nanoBack>>
  /\ UNCHANGED threadVars /\ UNCHANGED blockVars /\ UNCHANGED procVars
  /\ UNCHANGED mailVars

\* nanoBack := TimeStampToUnix(uint64(stampBack))
ToUnixAgain ==
  /\ pc \in {"stampBack", "stampBackU"}
  /\ nanoBack' = TimeStampToUnix(stampBack)
  /\ pc' = IF pc = "stampBack" THEN "nanoBack" ELSE "nanoBackU"
  /\ UNCHANGED <<origin, stamp, nano, stampBack>>
  /\ UNCHANGED threadVars /\ UNCHANGED blockVars /\ UNCHANGED procVars
  /\ UNCHANGED mailVars

NextTime == ToUnix \/ ToTimeStamp64 \/ ToTimeStamp \/ ToUnixAgain

SpecTime == InitTime /\ [][NextTime]_vars

\* ---- a process that holds Threads ----

\* time.Now().UnixNano() readings: 2026-11-03 00:00:00 and 0.5 s later
ClockInputs ==
  << <<24, 228, 95, 231, 158, 104, 0, 0>>,
     <<24, 228, 95, 231, 188, 53, 101, 0>> >>

Now == ClockInputs[clock]

\* tokens given to ParseEmailThread: thread_test.go 106 (one child block),
\* and one that is too short
ProcTokens ==
  { B64Encode(<<1, 213, 179, 18, 200, 45, 5, 199, 97, 198, 194, 112, 68, 113, 177, 90,
                243, 175, 85, 88, 208, 11, 0, 0, 2, 106, 80>>),
    SubSeq(TestToken, 1, 20) }

\* numbers rand.Intn(15) returns in the process
DrawInputs == {0, 14}

InitProcess ==
  /\ pc = "process" /\ origin = "process"
  /\ clock = 1
  /\ threads = [i \in ThreadIds |-> [ZeroThread EXCEPT !.ChildBlocks = NilSlice]]
  /\ heap = NoHeap
  /\ gpc = [g \in ThreadIds |-> "new"]
  /\ local = [g \in ThreadIds |-> NoLocal]
  /\ randSrc = RandAtStart
  /\ ret = NoRet
  /\ NameSpaceAppId = NameSpaceAppIdValue
  /\ ThreadIdle /\ BlockIdle /\ TimeIdle /\ MailIdle

\* a panic ends the process
Running == \A g \in ThreadIds : gpc[g] # "panic"

codecVars == <<pc, origin, threadVars, blockVars, timeVars, mailVars>>

\* the child blocks thread g holds or is about to hold
Held(g) ==
  threads[g].ChildBlocks.len + (IF gpc[g] = "intn" THEN 1 ELSE 0)

\* the clock moves on, for the programs that read it
Tick ==
  /\ Running /\ clock < Len(ClockInputs)
  /\ origin \in {"process", "shared", "email"}
  /\ clock' = clock + 1
  /\ ret' = NoRet
  /\ UNCHANGED <<threads, heap, gpc, local, randSrc, NameSpaceAppId>>
  /\ UNCHANGED codecVars

\* threads[g] = NewThread(s)
CallNewThread(g) ==
  /\ Running /\ gpc[g] = "new"
  /\ \E s \in TopicInputs :
       LET t == NewThread(s, Now, NameSpaceAppId)
       IN  threads' = [threads EXCEPT ![g] = [t EXCEPT !.ChildBlocks = NilSlice]]
  /\ gpc' = [gpc EXCEPT ![g] = "idle"]
  /\ ret' = NoRet
  /\ UNCHANGED <<clock, heap, local, randSrc, NameSpaceAppId>>
  /\ UNCHANGED codecVars

\* threads[g] = ParseEmailThread(token, "some topic") (example_test.go 176)
CallParseEmailThread(g) ==
  /\ Running /\ gpc[g] = "new"
  /\ \E token \in ProcTokens :
     \E r \in {ParseEmailThread(token, "some topic")} :
     \E a \in {AppendAll(heap, NilSlice, r.thread.ChildBlocks, 1, g)} :
           IF r.status = "ok"
           THEN /\ threads' = [threads EXCEPT ![g] = [r.thread EXCEPT !.ChildBlocks = a.slice]]
                /\ heap' = a.heap
                /\ gpc' = [gpc EXCEPT ![g] = "idle"]
           ELSE /\ gpc' = [gpc EXCEPT ![g] = "panic"]
                /\ UNCHANGED <<threads, heap>>
  /\ ret' = NoRet
  /\ UNCHANGED <<clock, local, randSrc, NameSpaceAppId>>
  /\ UNCHANGED codecVars

\* threads[g].AddChildBlock() up to the first write of shared state:
\* time.Since reads the clock (thread.go 122), and NewChildBlock sets the
\* flag and calls rand.Seed(time.Now().UnixNano()) on the global source
\* (thread.go 200).  The process makes the call while it holds fewer than
\* MaxBlocks child blocks.
AddChildBlock_Seed(g) ==
  /\ Running /\ gpc[g] = "idle"
  /\ Held(1) + Held(2) < MaxBlocks
  /\ local' = [local EXCEPT ![g].now = Now]
  /\ randSrc' = [seed |-> Now, draws |-> 0]
  /\ gpc' = [gpc EXCEPT ![g] = "intn"]
  /\ ret' = NoRet
  /\ UNCHANGED <<clock, threads, heap, NameSpaceAppId>>
  /\ UNCHANGED codecVars

\* threads[g].AddChildBlock(), the rest: randomNum := byte(rand.Intn(15)), a
\* draw that moves the global source on (thread.go 201), and the new block
\* is appended (thread.go 123)
AddChildBlock_Intn(g) ==
  /\ Running /\ gpc[g] = "intn"
  /\ \E randomNum \in DrawInputs :
       LET r == Thread_AddChildBlock(heap, threads[g], local[g].now, randomNum, g)
       IN  /\ threads' = [threads EXCEPT ![g] = r.thread]
           /\ heap' = r.heap
  /\ randSrc' = [randSrc EXCEPT !.draws = randSrc.draws + 1]
  /\ local' = [local EXCEPT ![g] = NoLocal]
  /\ gpc' = [gpc EXCEPT ![g] = "idle"]
  /\ ret' = NoRet
  /\ UNCHANGED <<clock, NameSpaceAppId>>
  /\ UNCHANGED codecVars

\* a method with a value receiver (or Reference, which only reads) is called
\* on threads[g] and returns: ret holds the value until the caller is done
\* with it
Returns(value, text) ==
  /\ ret = NoRet
  /\ ret' = [set |-> TRUE, value |-> value, text |-> text]
  /\ UNCHANGED <<clock, threads, heap, gpc, local, randSrc, NameSpaceAppId>>
  /\ UNCHANGED codecVars

CallString(g) ==
  /\ Running /\ gpc[g] = "idle"
  /\ Returns(Thread_String(ThreadValue(heap, threads[g])), "")

CallBytes(g) ==
  /\ Running /\ gpc[g] = "idle"
  /\ Returns(Thread_Bytes(ThreadValue(heap, threads[g])), "")

CallIndex(g) ==
  /\ Running /\ gpc[g] = "idle"
  /\ Returns(Thread_Index(ThreadValue(heap, threads[g])), "")

CallWrite(g) ==
  /\ Running /\ gpc[g] = "idle"
  /\ Returns(Thread_Write(ThreadValue(heap, threads[g])), "")

CallGuidBytes(g) ==
  /\ Running /\ gpc[g] = "idle"
  /\ Returns(GuidBytes(ThreadValue(heap, threads[g])), "")

CallReference(g) ==
  /\ Running /\ gpc[g] = "idle"
  /\ Returns(Thread_Reference(ThreadValue(heap, threads[g])), "")

CallGetGuid(g) ==
  /\ Running /\ gpc[g] = "idle"
  /\ Returns(GetGuid(ThreadValue(heap, threads[g])), "")

CallGetTopic(g) ==
  /\ Running /\ gpc[g] = "idle"
  /\ Returns(<<>>, GetTopic(ThreadValue(heap, threads[g])))

\* the caller is done with the value a method returned
Discard ==
  /\ Running /\ ret # NoRet
  /\ ret' = NoRet
  /\ UNCHANGED <<clock, threads, heap, gpc, local, randSrc, NameSpaceAppId>>
  /\ UNCHANGED codecVars

NextProcess ==
  \/ Tick \/ Discard
  \/ \E g \in ThreadIds :
       \/ CallNewThread(g) \/ CallParseEmailThread(g)
       \/ AddChildBlock_Seed(g) \/ AddChildBlock_Intn(g)
       \/ CallString(g) \/ CallBytes(g) \/ CallIndex(g) \/ CallWrite(g)
       \/ CallGuidBytes(g) \/ CallReference(g) \/ CallGetGuid(g) \/ CallGetTopic(g)

SpecProcess == InitProcess /\ [][NextProcess]_vars

\* ---- two Threads made from one child-block list ----

\* the calls of AddChildBlock made on each of the two Threads at most
MaxShared == 2

\* the child-block list the Threads are made from, as the array it lives in
\* and its length: nil; one block appended to nil (capacity 1); three blocks
\* appended to nil one by one (capacity 4); a list cut back to its first
\* block, list[:1] (capacity 2)
SharedListInputs ==
  LET b == [TimeFlag |-> FALSE, TimeDifference |-> <<0, 0, 1, 63, 226, 160, 0, 0>>,
            RandomNum |-> 3, SequenceCount |-> 0]
      c == [b EXCEPT !.RandomNum = 5]
  IN  { [array |-> <<>>, len |-> 0],
        [array |-> <<b>>, len |-> 1],
        [array |-> <<b, c, b, ZeroChildBlock>>, len |-> 3],
        [array |-> <<b, c>>, len |-> 1] }

\* list := ...; threads[1] = NewEmailThreadFromParams(date, guid, topic, list);
\* threads[2] = NewEmailThreadFromParams(date, guid, topic, list), or
\* threads[2] = threads[1]: either way both hold the same slice (array and
\* length).  thread keeps the Thread value as it was built.
InitShared ==
  /\ pc = "shared" /\ origin = "shared"
  /\ clock = 1
  /\ \E list \in SharedListInputs, date \in {ClockInputs[1]}, guid \in GuidInputs :
       LET sl == IF list.array = <<>> THEN NilSlice ELSE [arr |-> 1, len |-> list.len]
           t == NewEmailThreadFromParams(date, guid, "some topic",
                                         SubSeq(list.array, 1, list.len))
       IN  /\ heap = (IF list.array = <<>> THEN NoHeap
                      ELSE [a \in {1} |-> list.array])
           /\ thread = t
           /\ threads = [g \in ThreadIds |-> [t EXCEPT !.ChildBlocks = sl]]
  /\ gpc = [g \in ThreadIds |-> "shared"]
  /\ local = [g \in ThreadIds |-> NoLocal]
  /\ randSrc = RandAtStart
  /\ ret = NoRet
  /\ NameSpaceAppId = NameSpaceAppIdValue
  /\ topic = "" /\ idx = <<>> /\ res = NoParse /\ out = <<>>
  /\ BlockIdle /\ TimeIdle /\ MailIdle

\* threads[g].AddChildBlock(), the whole call: the clock is read, the global
\* source is seeded and drawn from, the block is appended
SharedAddChildBlock(g) ==
  /\ origin = "shared" /\ gpc[g] = "shared"
  /\ threads[g].ChildBlocks.len < Len(thread.ChildBlocks) + MaxShared
  /\ \E randomNum \in DrawInputs :
       LET r == Thread_AddChildBlock(heap, threads[g], Now, randomNum, g)
       IN  /\ threads' = [threads EXCEPT ![g] = r.thread]
           /\ heap' = r.heap
  /\ randSrc' = [seed |-> Now, draws |-> 1]
  /\ UNCHANGED <<clock, gpc, local, ret, NameSpaceAppId>>
  /\ UNCHANGED codecVars

NextShared == Tick \/ \E g \in ThreadIds : SharedAddChildBlock(g)

SpecShared == InitShared /\ [][NextShared]_vars

\* ---- recipients ----

\* address lists: none, one address, two (raweml_test.go 103-105), an empty
\* address after one, two empty addresses; x is the letter of the list
AddressLists(x) ==
  { <<>>, <<x>>, <<x, 49, Comma, x, 50>>, <<x, Comma>>, <<Comma>> }

InitRecipients ==
  /\ pc = "lists" /\ origin = "recipients"
  /\ to \in AddressLists(116)
  /\ cc \in AddressLists(99)
  /\ bcc \in AddressLists(98)
  /\ recipients = ZeroRecipients /\ got = <<>>
  /\ ThreadIdle /\ BlockIdle /\ TimeIdle /\ ProcIdle
  /\ EmailIdle /\ SubjectIdle

\* recipients := NewRecipients(to, cc, bcc)
CallNewRecipients ==
  /\ pc = "lists"
  /\ recipients' = NewRecipients(to, cc, bcc)
  /\ pc' = "recipients"
  /\ UNCHANGED <<origin, to, cc, bcc, got>>
  /\ UNCHANGED <<threadVars, blockVars, timeVars, procVars, emailVars, subjectVars>>

\* got := recipients.String()
CallRecipientsString ==
  /\ pc = "recipients"
  /\ got' = Recipients_String(recipients)
  /\ pc' = "got"
  /\ UNCHANGED <<origin, to, cc, bcc, recipients>>
  /\ UNCHANGED <<threadVars, blockVars, timeVars, procVars, emailVars, subjectVars>>

NextRecipients == CallNewRecipients \/ CallRecipientsString

SpecRecipients == InitRecipients /\ [][NextRecipients]_vars

\* ---- an Email and its headers ----

\* the Email of raweml_test.go 56-63 with short texts: From "f", one To
\* address "t", Subject "s"
TestEmail ==
  [ZeroEmail EXCEPT !.From = <<102>>,
                    !.Recipients = NewRecipients(<<116>>, <<>>, <<>>),
                    !.Subject = <<115>>]

\* keys given to SetHeader: "X-something" (raweml_test.go 64), "Subject",
\* "MIME-Version", "Content-Type"
KeyInputs ==
  { <<88, 45, 115, 111, 109, 101, 116, 104, 105, 110, 103>>,
    Lit.Subject, Lit.MIMEVersion, Lit.ContentType }

\* values given to SetHeader: "test" (raweml_test.go 64) and "v"
ValueInputs == { <<116, 101, 115, 116>>, <<118>> }

\* the maps an Email is made with: none (Headers nil), an empty one, one
\* that holds two values for "X-Something"
HeaderInputs ==
  { <<>>, <<EmptyHeader>>,
    <<[k \in {CanonicalMIMEHeaderKey(<<88, 45, 115, 111, 109, 101, 116, 104, 105, 110, 103>>)} |-> <<<<111>>, <<112>>>>]>> }

\* what writer.Boundary() gives: "b"
BoundaryInputs == { <<98>> }

InitEmail ==
  /\ pc = "email" /\ origin = "email"
  /\ mimeHeaders \in HeaderInputs
  /\ \E body \in {<<>>, <<98>>}, html \in {<<>>, <<104>>}, t \in TopicInputs,
        p \in {<<>>, Lit.High}, a \in {<<>>, <<"a">>} :
       email = [TestEmail EXCEPT !.TextBody = body, !.HTMLBody = html,
                                 !.Topic = t, !.Priority = p,
                                 !.Attachments = a,
                                 !.Headers = Len(mimeHeaders)]
  /\ key = <<>> /\ val = <<>> /\ seen = NoHeaders
  /\ ThreadIdle /\ BlockIdle /\ TimeIdle /\ ProcIdle
  /\ RecipientsIdle /\ SubjectIdle

\* email.SetHeader(k, v)
CallSetHeader ==
  /\ pc = "email"
  /\ \E k \in KeyInputs, v \in ValueInputs :
       LET r == Email_SetHeader(mimeHeaders, email, k, v)
       IN  /\ mimeHeaders' = r.maps
           /\ email' = r.email
           /\ key' = k /\ val' = v
  /\ pc' = "set"
  /\ UNCHANGED <<origin, seen>>
  /\ UNCHANGED <<threadVars, blockVars, timeVars, procVars, recipientVars, subjectVars>>

\* seen := *email.GetHeaders()
CallGetHeaders ==
  /\ pc = "set"
  /\ LET g == Email_GetHeaders(mimeHeaders, email)
     IN  /\ mimeHeaders' = g.maps
         /\ seen' = [err |-> "", headers |-> g.maps[g.h]]
  /\ pc' = "headers"
  /\ UNCHANGED <<origin, email, key, val>>
  /\ UNCHANGED <<threadVars, blockVars, timeVars, procVars, recipientVars, subjectVars>>

\* seen := the header written by email.Bytes()
CallEmailBytes ==
  /\ pc = "set"
  /\ \E b \in BoundaryInputs :
     \E r \in {Email_Bytes(mimeHeaders, email, Now, b)} :
       /\ mimeHeaders' = r.maps
       /\ seen' = [err |-> r.err, headers |-> r.headers]
  /\ pc' = "bytes"
  /\ UNCHANGED <<origin, email, key, val>>
  /\ UNCHANGED <<threadVars, blockVars, timeVars, procVars, recipientVars, subjectVars>>

NextEmail == CallSetHeader \/ CallGetHeaders \/ CallEmailBytes

SpecEmail == InitEmail /\ [][NextEmail]_vars

\* ---- subjects ----

\* subjects: up to three of "RE:", "FW:", " " in a row, in front of "x",
\* of "re:" or of nothing
SubjectInputs ==
  LET p == { <<82, 69, 58>>, <<70, 87, 58>>, <<32>> }
      rest == { <<120>>, <<114, 101, 58>>, <<>> }
      heads == {<<>>} \cup p \cup { a \o b : a \in p, b \in p }
                 \cup { a \o b \o c : a \in p, b \in p, c \in p }
  IN  { h \o r : h \in heads, r \in rest }

\* levels: 3 is what the example gives (example_test.go 73), 0 strips once
LevelInputs == {0, 1, 2, 3}

InitSubject ==
  /\ pc = "subject" /\ origin = "subject"
  /\ subject \in SubjectInputs /\ level \in LevelInputs
  /\ normalizedSubject = <<>>
  /\ ThreadIdle /\ BlockIdle /\ TimeIdle /\ ProcIdle
  /\ RecipientsIdle /\ EmailIdle

\* normalizedSubject := GetNormilizedSubject(subject, level)
CallGetNormilizedSubject ==
  /\ pc = "subject"
  /\ normalizedSubject' = GetNormilizedSubject(subject, level)
  /\ pc' = "normalized"
  /\ UNCHANGED <<origin, subject, level>>
  /\ UNCHANGED <<threadVars, blockVars, timeVars, procVars, recipientVars, emailVars>>

NextSubject == CallGetNormilizedSubject

SpecSubject == InitSubject /\ [][NextSubject]_vars

\* ---- all of it ----

Init ==
  \/ InitThread \/ InitBlock \/ InitTime \/ InitProcess \/ InitRecipients
  \/ InitEmail \/ InitShared \/ InitSubject

Next ==
  \/ NextThread \/ NextBlock \/ NextTime \/ NextProcess \/ NextRecipients
  \/ NextEmail \/ NextShared \/ NextSubject

Spec == Init /\ [][Next]_vars

\* ------------------------------------------------------------------------
\* Claims
\* ------------------------------------------------------------------------

ThreadParsed == pc \in {"parsed", "reencoded", "rebuilt"}
BlockParsed == pc \in {"blockParsed", "blockReencoded"}

\* the characters of a string: its UTF-8 code points (every byte that is
\* not a continuation byte 10xxxxxx starts one)
CharCount(s) == Len(SelectSeq(s, LAMBDA c : c < 128 \/ c > 191))

\* C1: ParseEmailThread never aborts the process: whatever the input string,
\* the call ends with a Thread or with an error handed to the caller, never
\* with a panic.
C1_ParseNeverPanics == ThreadParsed => res.status \in {"ok", "error"}

\* the 64-bit word with its low 16 bits cleared: what 6 header bytes hold
Trunc48(w) == <<w[1], w[2], w[3], w[4], w[5], w[6], 0, 0>>

\* DateUnixNano at the precision of the header: the ticks with the low 16
\* bits cleared, back in Unix nanoseconds
HeaderPrecision(d) ==
  Mul64(Sub64(Trunc48(Add64(DivS64(d, 100), EpochDiff)), EpochDiff), 100)

\* d is a multiple of 100 ns and its tick value is a multiple of 65536
HeaderAligned(d) ==
  LET ticks == Add64(DivS64(d, 100), EpochDiff)
  IN  Mul64(DivS64(d, 100), 100) = d /\ ticks[7] = 0 /\ ticks[8] = 0

\* C2 as stated: for any Thread t built via NewEmailThreadFromParams,
\* ParseEmailThread(t.String(), topic) has t's identifier and t's
\* DateUnixNano.
C2_RoundTripExact ==
  (origin = "params" /\ ThreadParsed) =>
    /\ res.status = "ok"
    /\ GetGuid(res.thread) = GetGuid(thread)
    /\ res.thread.DateUnixNano = thread.DateUnixNano

\* C2 amended: the parsed Thread has t's identifier, and its DateUnixNano is
\* t.DateUnixNano at the precision of the 6-byte header (ticks with the low
\* 16 bits cleared); it is t.DateUnixNano itself exactly when t.DateUnixNano
\* is a multiple of 100 whose tick value is a multiple of 65536.
C2_RoundTripHeaderPrecision ==
  (origin = "params" /\ ThreadParsed) =>
    /\ res.status = "ok"
    /\ GetGuid(res.thread) = GetGuid(thread)
    /\ res.thread.DateUnixNano = HeaderPrecision(thread.DateUnixNano)
    /\ (res.thread.DateUnixNano = thread.DateUnixNano
          <=> HeaderAligned(thread.DateUnixNano))

C2_Witness ==
  /\ origin = "params" /\ pc = "parsed" /\ res.status = "ok"
  /\ Len(thread.ChildBlocks) = 2
  /\ ~HeaderAligned(thread.DateUnixNano)
  /\ res.thread.DateUnixNano # thread.DateUnixNano

\* the word with only its bits lo..hi kept
KeepBits(w, lo, hi) ==
  FromBits([i \in 0..63 |-> IF i >= lo /\ i <= hi THEN Bit64(w, i) ELSE 0])

\* TimeDifference quantized by the block's window
Quantized(b) ==
  LET ticks == DivS64(b.TimeDifference, 100)
  IN  IF b.TimeFlag THEN Mul64(KeepBits(ticks, 23, 53), 100)
      ELSE Mul64(KeepBits(ticks, 18, 48), 100)

\* C3: for every ChildBlock b with non-zero TimeDifference and RandomNum,
\* SequenceCount in 0..15, ParseChildBlock(b.Bytes()) returns no error and a
\* block with b's TimeFlag, RandomNum and SequenceCount and with b's
\* TimeDifference quantized by b's window.
C3_BlockRoundTrip ==
  ( /\ origin \in {"literal", "delta"} /\ BlockParsed
    /\ blk.TimeDifference # Zero64
    /\ blk.RandomNum \in 0..15 /\ blk.SequenceCount \in 0..15 ) =>
    /\ blkRes.status = "ok"
    /\ blkRes.block.TimeFlag = blk.TimeFlag
    /\ blkRes.block.RandomNum = blk.RandomNum
    /\ blkRes.block.SequenceCount = blk.SequenceCount
    /\ blkRes.block.TimeDifference = Quantized(blk)

C3_Witness ==
  /\ origin = "literal" /\ pc = "blockParsed" /\ blkRes.status = "ok"
  /\ blk.TimeFlag /\ blk.RandomNum = 15 /\ blk.SequenceCount = 3
  /\ blk.TimeDifference # Zero64
  /\ blkRes.block.TimeDifference # blk.TimeDifference
  /\ blkRes.block.TimeDifference # Zero64

\* C4: every block produced by NewChildBlock has TimeFlag = false, for
\* every elapsed duration d (the flag would need d in (0.02 s, 1 s] and
\* d above 56 years at the same time).
C4_TimeFlagAlwaysFalse ==
  (origin = "delta" /\ pc # "delta") => blk.TimeFlag = FALSE

\* C5: ParseEmailThread rejects every token of fewer than 22 characters
\* with the token-too-short error, before any Base64 decoding, and rejects
\* no token of 22 or more characters with it.
C5_TooShortIsAnError ==
  ThreadParsed =>
    /\ CharCount(idx) < 22 =>
         res.status = "error" /\ res.err = "TokenTooShort" /\ res.at = "length"
    /\ CharCount(idx) >= 22 => res.err # "TokenTooShort"

\* the child blocks of the whole 5-byte chunks after the header
RECURSIVE WholeChunks(_, _)
WholeChunks(bytes, n) ==
  IF n = 0 THEN <<>>
  ELSE Append(WholeChunks(bytes, n - 1),
              ParseChildBlock(SubSeq(bytes, 22 + 5 * (n - 1) + 1, 22 + 5 * n)).block)

\* C6: a token that decodes to 22 + 5N + r bytes (0 <= r < 5, N <= 500)
\* yields exactly N child blocks, those of its N whole chunks; the r bytes
\* left over are not parsed as a block.
C6_WholeChunksOnly ==
  LET dec == DecodeString(idx)
      n == (Len(dec.bytes) - 22) \div 5
  IN  (origin = "token" /\ ThreadParsed /\ Len(idx) >= 22 /\ ~dec.err
         /\ Len(dec.bytes) >= 22 /\ n <= 500) =>
        /\ res.status = "ok"
        /\ res.thread.ChildBlocks = WholeChunks(dec.bytes, n)

\* C7: ParseChildBlock fails with the size-mismatch error exactly when its
\* argument has more than 5 bytes, and returns a ChildBlock and no error for
\* every argument of 0 to 5 bytes.
C7_LengthZeroToFiveAccepted ==
  (origin = "string" /\ BlockParsed) =>
    /\ Len(blkStr) > 5 => blkRes.status = "error" /\ blkRes.err = "SizeMismatch"
    /\ Len(blkStr) <= 5 => blkRes.status = "ok"

\* the 5-byte encodings of the blocks with a non-zero TimeDifference, in
\* list order
RECURSIVE BlockBytesOf(_)
BlockBytesOf(cbs) ==
  IF cbs = <<>> THEN <<>>
  ELSE (IF Head(cbs).TimeDifference = Zero64 THEN <<>> ELSE ChildBlock_Bytes(Head(cbs)))
       \o BlockBytesOf(Tail(cbs))

NonZeroBlocks(cbs) == Cardinality({i \in 1..Len(cbs) : cbs[i].TimeDifference # Zero64})

\* C8: t.String() is the padded standard Base64 text of: the 6 most
\* significant bytes of the big-endian ticks DateUnixNano/100 +
\* 116444736000000000, the 16 identifier bytes, and 5 bytes for each child
\* block with a non-zero TimeDifference, in list order; it decodes to
\* 22 + 5 * (number of such blocks) bytes.  Index() and Bytes() give the
\* same text.
C8_StringIsBase64OfLayout ==
  (origin = "params" /\ pc # "thread") =>
    LET ticks == Add64(DivS64(thread.DateUnixNano, 100), EpochDiff)
        layout == SubSeq(ticks, 1, 6) \o thread.guid \o BlockBytesOf(thread.ChildBlocks)
        dec == DecodeString(idx)
    IN  /\ ~dec.err
        /\ dec.bytes = layout
        /\ Len(dec.bytes) = 22 + 5 * NonZeroBlocks(thread.ChildBlocks)
        /\ Len(idx) = 4 * ((Len(dec.bytes) + 2) \div 3)
        /\ idx = B64Encode(layout)
        /\ \A k \in 1..Len(idx) : idx[k] = PadChar \/ B64Val(idx[k]) >= 0
        /\ Thread_Index(thread) = idx /\ Thread_Bytes(thread) = idx

C8_Witness ==
  /\ origin = "params" /\ pc = "token"
  /\ Len(thread.ChildBlocks) = 2
  /\ NonZeroBlocks(thread.ChildBlocks) = 1
  /\ idx[Len(idx)] # PadChar
  /\ IsNeg64(thread.DateUnixNano)

\* idx is the canonical text of exactly 22 bytes
CanonicalHeaderToken(s) ==
  LET dec == DecodeString(s)
  IN  ~dec.err /\ Len(dec.bytes) = 22 /\ s = B64Encode(dec.bytes)

\* the ticks of the header of a decoded token
HeaderTicks(s) == SubSeq(DecodeString(s).bytes, 1, 6) \o <<0, 0>>

\* the largest and the smallest tick value whose Unix nanoseconds fit an
\* int64: 116444736000000000 +- 92233720368547758
MaxUnixTicks == <<2, 229, 95, 243, 80, 31, 199, 174>>
MinUnixTicks == <<0, 86, 3, 202, 90, 93, 56, 82>>

LeU64(a, b) == a = b \/ LtU64(a, b)

\* C9: for every canonical token of a thread without child blocks (Base64
\* of exactly 22 bytes) whose header time lies between 1970 and 2262,
\* NewEmailThreadFromParams(p.DateUnixNano, p.GetGuid(), p.GetTopic(),
\* nil).String() of the parsed p is the token itself.
C9_RebuildReproducesToken ==
  (origin = "token" /\ pc = "rebuilt" /\ CanonicalHeaderToken(idx)
     /\ LeU64(EpochDiff, HeaderTicks(idx)) /\ LeU64(HeaderTicks(idx), MaxUnixTicks)) =>
    out = idx

C9_Witness ==
  /\ origin = "token" /\ pc = "rebuilt" /\ CanonicalHeaderToken(idx)
  /\ SubSeq(HeaderTicks(idx), 1, 6) = <<2, 229, 95, 243, 80, 31>>
  /\ out = idx

\* the 31-bit time field of a 5-byte chunk is not zero
TimeFieldNonZero(x) == <<x[1] % 128, x[2], x[3], x[4]>> # <<0, 0, 0, 0>>

\* idx is the canonical text of a header and N whole chunks
WellFormedToken(s) ==
  LET dec == DecodeString(s)
  IN  /\ Len(s) >= 22 /\ ~dec.err /\ Len(dec.bytes) >= 22
      /\ (Len(dec.bytes) - 22) % 5 = 0
      /\ (Len(dec.bytes) - 22) \div 5 <= 500
      /\ s = B64Encode(dec.bytes)

ChunkOf(s, k) == SubSeq(DecodeString(s).bytes, 22 + 5 * (k - 1) + 1, 22 + 5 * k)
ChunkCount(s) == (Len(DecodeString(s).bytes) - 22) \div 5

\* C10 as stated: for every 5-byte string x, ParseChildBlock(x) succeeds and
\* ParseChildBlock(x).Bytes() = x; for every well-formed token with at most
\* 500 child blocks, ParseEmailThread(token, topic).String() = token.
C10_ReencodeIsIdentity ==
  /\ (origin = "string" /\ BlockParsed /\ Len(blkStr) = 5) => blkRes.status = "ok"
  /\ (origin = "string" /\ pc = "blockReencoded" /\ Len(blkStr) = 5) => blkOut = blkStr
  /\ (origin = "token" /\ ThreadParsed /\ WellFormedToken(idx)) => res.status = "ok"
  /\ (origin = "token" /\ pc = "reencoded" /\ WellFormedToken(idx)) => out = idx

\* C10 amended: for every 5-byte string x, ParseChildBlock(x) succeeds;
\* ParseChildBlock(x).Bytes() = x when the 31-bit time field of x is not
\* zero, and is empty when it is zero.  For every well-formed token with at
\* most 500 child blocks, ParseEmailThread(token, topic).String() = token
\* when every chunk has a non-zero time field and the header time stamp is
\* one whose Unix nanoseconds fit an int64 (1677 to 2262).
C10_ReencodeNonZeroField ==
  /\ (origin = "string" /\ BlockParsed /\ Len(blkStr) = 5) => blkRes.status = "ok"
  /\ (origin = "string" /\ pc = "blockReencoded" /\ Len(blkStr) = 5) =>
       blkOut = IF TimeFieldNonZero(blkStr) THEN blkStr ELSE <<>>
  /\ (origin = "token" /\ ThreadParsed /\ WellFormedToken(idx)) => res.status = "ok"
  /\ (origin = "token" /\ pc = "reencoded" /\ WellFormedToken(idx)
        /\ (\A k \in 1..ChunkCount(idx) : TimeFieldNonZero(ChunkOf(idx, k)))
        /\ LeU64(MinUnixTicks, HeaderTicks(idx))
        /\ LeU64(HeaderTicks(idx), MaxUnixTicks)) =>
       out = idx

C10_Witness ==
  /\ origin = "token" /\ pc = "reencoded" /\ WellFormedToken(idx)
  /\ ChunkCount(idx) = 2
  /\ \A k \in 1..2 : TimeFieldNonZero(ChunkOf(idx, k))
  /\ ChunkOf(idx, 1) # ChunkOf(idx, 2)
  /\ LtU64(HeaderTicks(idx), EpochDiff)
  /\ LeU64(MinUnixTicks, HeaderTicks(idx))
  /\ out = idx

\* the low 31 bits of the first four bytes of x read big-endian, as a word
TimeField(x) == <<0, 0, 0, 0, x[1] % 128, x[2], x[3], x[4]>>

\* C11: for every 5-byte string x, ParseChildBlock(x) returns TimeFlag = top
\* bit of byte 0, TimeDifference = F * 2^18 * 100 ns (flag false) or
\* F * 2^23 * 100 ns (flag true) with F the low 31 bits of the first four
\* bytes, RandomNum = high nibble and SequenceCount = low nibble of byte 4;
\* the TimeDifference is not negative and the product does not overflow.
C11_ParsedFields ==
  (origin = "string" /\ BlockParsed /\ Len(blkStr) = 5) =>
    LET b == blkRes.block
        k == IF blkStr[1] >= 128 THEN 23 ELSE 18
        ticks == Shl64(TimeField(blkStr), k)
    IN  /\ blkRes.status = "ok"
        /\ b.TimeFlag = (blkStr[1] >= 128)
        /\ Shr64(ticks, k) = TimeField(blkStr)
        /\ DivU64(b.TimeDifference, TickNs) = ticks
        /\ Mul64(ticks, TickNs) = b.TimeDifference
        /\ ~IsNeg64(b.TimeDifference)
        /\ b.RandomNum = blkStr[5] \div 16
        /\ b.SequenceCount = blkStr[5] % 16

\* the largest field in the wide window, and a block with both nibbles set
C11_Witness ==
  /\ origin = "string" /\ pc = "blockParsed" /\ blkRes.status = "ok"
  /\ blkStr = <<255, 255, 255, 255, 186>>
  /\ blkRes.block.TimeFlag
  /\ blkRes.block.RandomNum = 11 /\ blkRes.block.SequenceCount = 10

\* C12: ChildBlock.Bytes() returns the empty byte sequence exactly when
\* TimeDifference = 0 and exactly 5 bytes for every other block, also when a
\* non-zero TimeDifference quantizes to a zero 31-bit field.
C12_EmptyOnlyForZero ==
  /\ (origin \in {"literal", "delta"} /\ pc = "string") =>
       /\ (blk.TimeDifference = Zero64) <=> (blkStr = <<>>)
       /\ blk.TimeDifference # Zero64 => Len(blkStr) = 5
  /\ pc = "blockReencoded" =>
       /\ (blkRes.block.TimeDifference = Zero64) <=> (blkOut = <<>>)
       /\ blkRes.block.TimeDifference # Zero64 => Len(blkOut) = 5

\* a difference of 99 ns: not zero, with a zero field
C12_Witness ==
  /\ origin = "delta" /\ pc = "string"
  /\ delta = <<0, 0, 0, 0, 0, 0, 0, 99>>
  /\ Len(blkStr) = 5 /\ SubSeq(blkStr, 1, 4) = <<0, 0, 0, 0>>

\* C15: for every tick value t with t >= 116444736000000000 whose
\* (t - 116444736000000000) * 100 fits a signed 64-bit integer,
\* TimeStampToUnix(t) is that product, a multiple of 100, and
\* TimeStampToUnix(UnixToTimeStamp64(TimeStampToUnix(t))) = TimeStampToUnix(t).
C15_TickRoundTrip ==
  (origin = "stamp" /\ LeU64(EpochDiff, stamp) /\ LeU64(stamp, MaxUnixTicks)) =>
    /\ pc \in {"nano", "stampBack", "nanoBack"} =>
         /\ ~IsNeg64(nano)
         /\ DivU64(nano, TickNs) = Sub64(stamp, EpochDiff)
         /\ Mul64(DivU64(nano, TickNs), TickNs) = nano
    /\ pc \in {"stampBack", "nanoBack"} => stampBack = stamp
    /\ pc = "nanoBack" => nanoBack = nano

\* the last tick value of the range, all three conversions done
C15_Witness ==
  /\ origin = "stamp" /\ pc = "nanoBack"
  /\ stamp = MaxUnixTicks
  /\ nanoBack = nano /\ nano = <<127, 255, 255, 255, 255, 255, 255, 248>>

\* C16 as stated: TimeStampToUnix(130016196641685504) = 1357146064000000000
C16_VectorExact ==
  (origin = "stamp" /\ pc = "nano" /\ stamp = <<1, 205, 233, 10, 191, 224, 0, 0>>) =>
    nano = <<18, 213, 141, 39, 157, 10, 32, 0>>

\* C16 amended: TimeStampToUnix(130016196641685504) = 1357146064168550400,
\* which is 168550400 ns (less than one second) after 1357146064000000000
C16_VectorWithinSecond ==
  (origin = "stamp" /\ pc = "nano" /\ stamp = <<1, 205, 233, 10, 191, 224, 0, 0>>) =>
    /\ nano = <<18, 213, 141, 39, 167, 22, 0, 0>>
    /\ Sub64(nano, <<18, 213, 141, 39, 157, 10, 32, 0>>) = <<0, 0, 0, 0, 10, 11, 224, 0>>
    /\ LtU64(Sub64(nano, <<18, 213, 141, 39, 157, 10, 32, 0>>), <<0, 0, 0, 0, 59, 154, 202, 0>>)

C16_Witness ==
  /\ origin = "stamp" /\ pc = "nano"
  /\ stamp = <<1, 205, 233, 10, 191, 224, 0, 0>>
  /\ nano # Zero64

\* the child blocks of threads[g], before and after a step
BlocksOf(g) == SliceElems(heap, threads[g].ChildBlocks)
BlocksOfNext(g) == SliceElems(heap', threads'[g].ChildBlocks)

\* a step that completes threads[g].AddChildBlock()
AddCompletes(g) == gpc[g] = "intn" /\ gpc'[g] = "idle"

\* C13: AddChildBlock only appends.  Every call that completes on a Thread
\* leaves the blocks it had unchanged, in their order, and puts its own block
\* (the time since the Thread's date, the number drawn) right after them; no
\* other step of a constructed Thread changes its blocks.  So n calls on a
\* Thread of k blocks leave k + n blocks, the i-th call's at index k + i - 1.
C13_OnlyAppends ==
  [][\A g \in ThreadIds :
       /\ AddCompletes(g) =>
            /\ Len(BlocksOfNext(g)) = Len(BlocksOf(g)) + 1
            /\ SubSeq(BlocksOfNext(g), 1, Len(BlocksOf(g))) = BlocksOf(g)
            /\ \E randomNum \in DrawInputs :
                 BlocksOfNext(g)[Len(BlocksOf(g)) + 1] =
                   NewChildBlock(TimeSince(local[g].now, threads[g].DateUnixNano), randomNum)
       /\ (gpc[g] \in {"idle", "intn"} /\ ~AddCompletes(g)) =>
            BlocksOfNext(g) = BlocksOf(g)]_vars

\* two calls made 0.5 s apart on a new Thread: 0 then 500000000 ns
C13_Witness ==
  /\ pc = "process"
  /\ \E g \in ThreadIds :
       /\ gpc[g] = "idle"
       /\ Len(BlocksOf(g)) = 2
       /\ BlocksOf(g)[1].TimeDifference = Zero64
       /\ BlocksOf(g)[2].TimeDifference = <<0, 0, 0, 0, 29, 205, 101, 0>>

\* C14: of the operations on a constructed Thread (AddChildBlock, String,
\* Bytes, Index, Write, GuidBytes, Reference, GetGuid, GetTopic), only a
\* completing AddChildBlock changes the Thread, and it changes ChildBlocks
\* only: identifier, DateUnixNano and topic stay what they were.
C14_OnlyAddMutates ==
  [][\A g \in ThreadIds :
       gpc[g] \in {"idle", "intn"} =>
         /\ threads'[g].guid = threads[g].guid
         /\ threads'[g].DateUnixNano = threads[g].DateUnixNano
         /\ threads'[g].topic = threads[g].topic
         /\ ~AddCompletes(g) =>
              ThreadValue(heap', threads'[g]) = ThreadValue(heap, threads[g])]_vars

\* a parsed Thread (date 2019) got a block added, and Reference() was called
C14_Witness ==
  /\ pc = "process"
  /\ \E g \in ThreadIds :
       /\ gpc[g] = "idle"
       /\ threads[g].DateUnixNano # ClockInputs[1] /\ threads[g].DateUnixNano # ClockInputs[2]
       /\ Len(BlocksOf(g)) = 2
       /\ ret = [set |-> TRUE, value |-> Thread_Reference(ThreadValue(heap, threads[g])), text |-> ""]

\* C17: every ChildBlock a Thread holds, after NewThread or ParseEmailThread
\* and any number of AddChildBlock calls, stores its TimeDifference as its
\* window quantizes it: a multiple of 2^18 * 100 ns (TimeFlag false) or of
\* 2^23 * 100 ns (TimeFlag true) that fits the 31-bit field.
C17_HeldBlocksQuantized ==
  pc = "process" =>
    \A g \in ThreadIds :
      \A i \in 1..Len(BlocksOf(g)) :
        BlocksOf(g)[i].TimeDifference = Quantized(BlocksOf(g)[i])

\* threads[g] was made by NewThread: its date is a reading of the clock
MadeByNewThread(g) ==
  /\ gpc[g] \in {"idle", "intn"}
  /\ \E c \in 1..Len(ClockInputs) : threads[g].DateUnixNano = ClockInputs[c]

\* bytes 6..21 of the decoded token of threads[g]
TokenGuidBytes(g) ==
  SubSeq(DecodeString(Thread_String(ThreadValue(heap, threads[g]))).bytes, 7, 22)

\* C18: the identifier is a function of the topic alone.  Two Threads made
\* by NewThread with the same topic, at whatever times and after whatever
\* other operations, have the same identifier: bytes 6..21 of their decoded
\* tokens agree, and so do their Reference() values.
C18_SameTopicSameIdentifier ==
  pc = "process" =>
    \A g, h \in ThreadIds :
      (MadeByNewThread(g) /\ MadeByNewThread(h) /\ threads[g].topic = threads[h].topic) =>
        /\ threads[g].guid = threads[h].guid
        /\ TokenGuidBytes(g) = TokenGuidBytes(h)
        /\ TokenGuidBytes(g) = threads[g].guid
        /\ Thread_Reference(ThreadValue(heap, threads[g])) =
             Thread_Reference(ThreadValue(heap, threads[h]))

\* the same topic at two readings of the clock, the first Thread with a
\* child block added before the second was made
C18_Witness ==
  /\ pc = "process"
  /\ MadeByNewThread(1) /\ MadeByNewThread(2)
  /\ threads[1].topic = "some topic" /\ threads[2].topic = "some topic"
  /\ threads[1].DateUnixNano = ClockInputs[1] /\ threads[2].DateUnixNano = ClockInputs[2]
  /\ Len(BlocksOf(1)) = 1 /\ BlocksOf(1)[1].TimeDifference = Zero64
  /\ TokenGuidBytes(1) = TokenGuidBytes(2)

\* a step that seeds the process-wide source again: it has been seeded by a
\* call before, and the step sets its seed or takes it back to its start
ReSeeds ==
  /\ randSrc.seed # RandAtStart.seed
  /\ randSrc'.seed # randSrc.seed \/ randSrc'.draws < randSrc.draws

\* C19: the process-wide random source is seeded once and only read
\* afterwards: no step of a NewChildBlock / AddChildBlock call seeds it again.
C19_SeededOnce == [][~ReSeeds]_vars

\* C20: calls that run concurrently on distinct Threads share no mutable
\* state.  The namespace is never written, and while AddChildBlock on
\* threads[g] is under way, between its steps, no step of another call
\* changes the state of the random source that the call goes on to read.
C20_NoSharedMutableState ==
  [][/\ NameSpaceAppId' = NameSpaceAppId
     /\ \A g \in ThreadIds :
          (gpc[g] = "intn" /\ gpc'[g] = "intn") =>
            /\ randSrc'.seed = randSrc.seed
            /\ randSrc'.draws = randSrc.draws]_vars

\* C21: the topic does not interfere with decoding.  Whatever ParseEmailThread
\* did with the token and the topic given, it does the same with every other
\* topic: it fails the same way, or it returns a Thread with the same
\* DateUnixNano, identifier, child blocks and String(); and the Thread it
\* returns has exactly the topic passed in.
C21_TopicDoesNotInterfere ==
  pc = "parsed" =>
    \A q \in TopicInputs :
      LET other == ParseEmailThread(idx, q)
      IN  /\ other.status = res.status /\ other.err = res.err
          /\ res.status = "ok" =>
               /\ other.thread.DateUnixNano = res.thread.DateUnixNano
               /\ other.thread.guid = res.thread.guid
               /\ other.thread.ChildBlocks = res.thread.ChildBlocks
               /\ Thread_String(other.thread) = Thread_String(res.thread)
               /\ GetTopic(res.thread) = topic
               /\ GetTopic(other.thread) = q

\* a given token with two child blocks, parsed with the topic "some topic"
C21_Witness ==
  /\ origin = "token" /\ pc = "parsed" /\ res.status = "ok"
  /\ topic = "some topic"
  /\ Len(res.thread.ChildBlocks) = 2
  /\ ParseEmailThread(idx, "").thread.guid = res.thread.guid
  /\ res.thread.guid # ZeroGuid

\* C22: ParseEmailThread never returns more than 500 child blocks.  For a
\* token whose decoded bytes are more than 22 + 2500 it returns, without an
\* error, exactly the first 500 five-byte chunks as child blocks, in order,
\* whatever the bytes after them are.
C22_AtMost500Blocks ==
  (origin = "token" /\ ThreadParsed) =>
    LET dec == DecodeString(idx)
        bytes == dec.bytes
        chunk(k) == SubSeq(bytes, 22 + 5 * (k - 1) + 1, 22 + 5 * k)
    IN  /\ res.status = "ok" => Len(res.thread.ChildBlocks) <= 500
        /\ (Len(idx) >= 22 /\ ~dec.err /\ Len(bytes) > 22 + 2500) =>
             /\ res.status = "ok"
             /\ Len(res.thread.ChildBlocks) = 500
             /\ \A k \in 1..500 :
                  res.thread.ChildBlocks[k] = ParseChildBlock(chunk(k)).block

\* 501 chunks and 3 bytes more: 500 blocks, the 1st from chunk 1 and the
\* 500th from chunk 500
C22_Witness ==
  /\ origin = "token" /\ pc = "parsed" /\ res.status = "ok"
  /\ Len(DecodeString(idx).bytes) = 22 + 2505 + 3
  /\ Len(res.thread.ChildBlocks) = 500
  /\ res.thread.ChildBlocks[1] = ParseChildBlock(LongChunk(1)).block
  /\ res.thread.ChildBlocks[500] = ParseChildBlock(LongChunk(500)).block
  /\ res.thread.ChildBlocks[500] # ParseChildBlock(LongChunk(501)).block

\* a and b joined by a comma, or the one of them that is not empty
WithComma(a, b) ==
  IF a = <<>> THEN b ELSE IF b = <<>> THEN a ELSE a \o <<44>> \o b

\* C23: NewRecipients(to, cc, bcc).String() lists To, then Cc, then Bcc, each
\* in its input order, joined by commas: to + "," + cc + "," + bcc when none
\* is empty, and an empty argument adds no address and no comma.
C23_ToCcBccInOrder ==
  (origin = "recipients" /\ pc = "got") =>
    /\ got = WithComma(to, WithComma(cc, bcc))
    /\ (to # <<>> /\ cc # <<>> /\ bcc # <<>>) => got = to \o <<44>> \o cc \o <<44>> \o bcc

\* two addresses in each list
C23_Witness ==
  /\ origin = "recipients" /\ pc = "got"
  /\ to = <<116, 49, 44, 116, 50>> /\ cc = <<99, 49, 44, 99, 50>> /\ bcc = <<98, 49, 44, 98, 50>>
  /\ Len(recipients.ToAddresses) = 2 /\ Len(recipients.BccAddresses) = 2
  /\ got = <<116, 49, 44, 116, 50, 44, 99, 49, 44, 99, 50, 44, 98, 49, 44, 98, 50>>

\* C24: after email.SetHeader(key, value) the headers of the Email hold
\* exactly the one value for key, whatever the Headers field was before
\* (nil included): what a later GetHeaders() gives, and what a later Bytes()
\* writes, holds value alone under the canonical form of key
C24_SetHeaderIsSeen ==
  (pc \in {"headers", "bytes"} /\ origin = "email" /\ seen.err = "") =>
    /\ CanonicalMIMEHeaderKey(key) \in DOMAIN seen.headers
    /\ seen.headers[CanonicalMIMEHeaderKey(key)] = <<val>>

\* C24 for the Emails whose Headers field is not nil, asked through
\* GetHeaders()
C24_SetHeaderOnAMapIsSeen ==
  (pc = "headers" /\ origin = "email" /\ email.Headers # 0) =>
    /\ CanonicalMIMEHeaderKey(key) \in DOMAIN seen.headers
    /\ seen.headers[CanonicalMIMEHeaderKey(key)] = <<val>>

\* C25: every block returned by NewChildBlock(d), for every d, has
\* SequenceCount = 0 and a RandomNum in 0..15, its wire form ends in the byte
\* RandomNum * 16, and parsing the wire form gives the same RandomNum and
\* SequenceCount 0
C25_FreshBlockNibbles ==
  (origin = "delta") =>
    /\ (pc \in {"block", "string", "blockParsed", "blockReencoded"}) =>
         (blk.SequenceCount = 0 /\ blk.RandomNum \in 0..15)
    /\ (pc \in {"string", "blockParsed", "blockReencoded"}) =>
         (Len(blkStr) = BlockLen /\ blkStr[BlockLen] = blk.RandomNum * 16)
    /\ (pc \in {"blockParsed", "blockReencoded"}) =>
         /\ blkRes.status = "ok"
         /\ blkRes.block.RandomNum = blk.RandomNum
         /\ blkRes.block.SequenceCount = 0

\* C25 as the code has it: the fields are as said for every d; the wire form
\* and its parse are as said for every d other than 0, and NewChildBlock(0)
\* has no wire form (Bytes() is empty)
C25_FreshBlockNibblesOnTheWire ==
  (origin = "delta") =>
    /\ (pc \in {"block", "string", "blockParsed", "blockReencoded"}) =>
         (blk.SequenceCount = 0 /\ blk.RandomNum \in 0..15)
    /\ (pc \in {"string", "blockParsed", "blockReencoded"} /\ delta # Zero64) =>
         (Len(blkStr) = BlockLen /\ blkStr[BlockLen] = blk.RandomNum * 16)
    /\ (pc \in {"blockParsed", "blockReencoded"} /\ delta # Zero64) =>
         /\ blkRes.status = "ok"
         /\ blkRes.block.RandomNum = blk.RandomNum
         /\ blkRes.block.SequenceCount = 0
    /\ (pc \in {"string", "blockParsed", "blockReencoded"} /\ delta = Zero64) =>
         blkStr = <<>>

\* a block made from a duration other than 0 with the largest number
\* rand.Intn(15) gives went to the wire and came back with that number
C25_Witness ==
  /\ origin = "delta" /\ pc = "blockParsed" /\ delta # Zero64
  /\ blk.RandomNum = 14 /\ blkStr[BlockLen] = 224
  /\ blkRes.status = "ok" /\ blkRes.block.RandomNum = 14

\* C26: for every elapsed time d > 0 ns, with b = NewChildBlock(d) and
\* d' = ParseChildBlock(b.Bytes()).TimeDifference: d' <= d and d - d' is less
\* than the step of b's window (2^18 ticks = 26214400 ns when TimeFlag is
\* false, 2^23 ticks = 838860800 ns when it is true) plus 100 ns
C26_OffsetRoundedDownByLessThanAStep ==
  (origin = "delta" /\ pc = "blockParsed" /\ LtS64(Zero64, delta)) =>
    /\ blkRes.status = "ok"
    /\ LeS64(blkRes.block.TimeDifference, delta)
    /\ LtS64(Sub64(delta, blkRes.block.TimeDifference),
             Mul64(One64, IF blk.TimeFlag THEN 838860800 + TickNs
                          ELSE 26214400 + TickNs))

\* C27: Threads made from the same child-block list (or one copied from the
\* other) are independent.  A call of AddChildBlock on one of them leaves
\* the blocks seen through the other as they were, and puts exactly one block
\* after the blocks its own Thread had
C27_ThreadsIndependent ==
  [][\A g \in ThreadIds :
       (origin = "shared" /\ threads'[g] # threads[g]) =>
         /\ \A o \in ThreadIds \ {g} : BlocksOfNext(o) = BlocksOf(o)
         /\ Len(BlocksOfNext(g)) = Len(BlocksOf(g)) + 1
         /\ SubSeq(BlocksOfNext(g), 1, Len(BlocksOf(g))) = BlocksOf(g)]_vars

\* s ends in t
IsSuffix(t, s) ==
  Len(t) <= Len(s) /\ SubSeq(s, Len(s) - Len(t) + 1, Len(s)) = t

\* s starts with "RE:", "FW:" or a space
HasReplyPrefix(s) ==
  \/ TrimPrefix(s, <<82, 69, 58>>) # s
  \/ TrimPrefix(s, <<70, 87, 58>>) # s
  \/ TrimPrefix(s, <<32>>) # s

RECURSIVE Rounds(_, _)
\* s after n rounds, each taking away one leading "RE:", then one leading
\* "FW:", then one leading space
Rounds(s, n) ==
  IF n = 0 THEN s
  ELSE Rounds(TrimPrefix(TrimPrefix(TrimPrefix(s, <<82, 69, 58>>), <<70, 87, 58>>), <<32>>),
              n - 1)

\* C28: for every subject and every level >= 1, GetNormilizedSubject(subject,
\* level) is a suffix of subject that no longer starts with "RE:", "FW:" or a
\* space
C28_AllPrefixesGone ==
  (origin = "subject" /\ pc = "normalized" /\ level >= 1) =>
    /\ IsSuffix(normalizedSubject, subject)
    /\ ~HasReplyPrefix(normalizedSubject)

\* what GetNormilizedSubject does for every subject and every level >= 1:
\* the result is a suffix of subject, namely subject after level rounds of
\* stripping; no prefix is left when level - 1 rounds already gave the result
C28_PrefixesGoneUpToLevel ==
  (origin = "subject" /\ pc = "normalized" /\ level >= 1) =>
    /\ IsSuffix(normalizedSubject, subject)
    /\ normalizedSubject = Rounds(subject, level)
    /\ (Rounds(subject, level - 1) = normalizedSubject) =>
         ~HasReplyPrefix(normalizedSubject)

====
